---- MODULE Spec2Model ----
(***************************************************************************)
(* A model of the cpuwu emulator core (src/src/lib.rs): the Cpu struct,    *)
(* its SimpleAddress bus, the MMU check, the decoder and the interrupt     *)
(* queue.  The public operations new(), step(), irq() and nmi() are the    *)
(* actions; every private method is an operator on a record `self` that    *)
(* holds the fields of Cpu.                                                *)
(*                                                                         *)
(* A u32 is a tuple of four bytes, least significant first, so that the    *)
(* full 32-bit range is kept (bit 31 and the carry out of it matter).      *)
(***************************************************************************)
EXTENDS Integers, Sequences, FiniteSets, TLC

\* ------------------------------------------------------------------ bounds
\* step() calls explored per run
MaxSteps == 7
\* irq() calls explored per run
MaxIrqs == 2
\* step() calls explored per run of an arithmetic program
MaxAluSteps == 3

\* calls of step() in a run of the load, store and branch programs
MaxIsaSteps == 6

\* --------------------------------------------------------------- constants
READ == 4
WRITE == 2
EXEC == 1
SIMPLE_ADDRESS_SIZE == 16777216
F_INTERRUPT_ENABLE == 3
F_ZERO == 4
F_OVERFLOW == 5
F_CARRY == 6
F_PARITY == 7
F_NEGATIVE == 8
F_NAN == 9
F_INFINITE == 10
F_USER_RING == 11
F_MEMMAP_ENABLE == 12
R_INT == 12
R_PC == 13
R_BASE == 14
R_SP == 15

\* ------------------------------------------------------- u32 / u8 / u64
\* bit k of a byte
BitOf(b, k) == (b \div (2 ^ k)) % 2

\* the u32 with value n (n below 2^31), as four little-endian bytes
W32(n) == << n % 256, (n \div 256) % 256, (n \div 65536) % 256, (n \div 16777216) % 256 >>

\* bit k (0..31) of a u32
Bit(w, k) == BitOf(w[(k \div 8) + 1], k % 8)

\* the bits of a u32 as a function 0..31 -> {0,1}
Bits(w) == [k \in 0..31 |-> Bit(w, k)]

\* the byte made of bits base..base+7 of a bit function
ByteAt(f, base) ==
    f[base] + 2 * f[base + 1] + 4 * f[base + 2] + 8 * f[base + 3]
    + 16 * f[base + 4] + 32 * f[base + 5] + 64 * f[base + 6] + 128 * f[base + 7]

\* the low 32 bits of a bit function, as a u32 (`as u32`)
FromBits(f) == << ByteAt(f, 0), ByteAt(f, 8), ByteAt(f, 16), ByteAt(f, 24) >>

\* a & b, a | b, a ^ b, !a on u32
AndW(a, b) == FromBits([k \in 0..31 |-> Bit(a, k) * Bit(b, k)])
OrW(a, b) == FromBits([k \in 0..31 |-> IF Bit(a, k) + Bit(b, k) > 0 THEN 1 ELSE 0])
XorW(a, b) == FromBits([k \in 0..31 |-> (Bit(a, k) + Bit(b, k)) % 2])
NotW(a) == << 255 - a[1], 255 - a[2], 255 - a[3], 255 - a[4] >>

\* a & b on u8
AndB(a, b) == AndW(W32(a), W32(b))[1]

\* a < b on u32
LtW(a, b) ==
    \E i \in 1..4 : a[i] < b[i] /\ \A j \in (i + 1)..4 : a[j] = b[j]

\* a + b + c in a 64-bit intermediate: the low 32 bits and bit 32
AddC(a, b, c) ==
    LET s1 == a[1] + b[1] + c
        s2 == a[2] + b[2] + (s1 \div 256)
        s3 == a[3] + b[3] + (s2 \div 256)
        s4 == a[4] + b[4] + (s3 \div 256)
    IN  [w |-> << s1 % 256, s2 % 256, s3 % 256, s4 % 256 >>, c |-> s4 \div 256]

\* ------------------------------------------------------------------ errors
\* Result<_, InvalidMemoryAccess>, and a host panic (arithmetic overflow under
\* overflow checks, division by zero)
Ok == [kind |-> "Ok", p |-> 0, permissions |-> 0]
UsedFreePage == [kind |-> "UsedFreePage", p |-> 0, permissions |-> 0]
InvalidPermissions(p, permissions) ==
    [kind |-> "InvalidPermissions", p |-> p, permissions |-> permissions]
UnprivilegedOpcode == [kind |-> "UnprivilegedOpcode", p |-> 0, permissions |-> 0]
Panic == [kind |-> "panic", p |-> 0, permissions |-> 0]

\* the outcome of a method: the Cpu after it, Ok or the error, the value returned
Res(self, err, val) == [self |-> self, err |-> err, val |-> val]

\* let v = ...; the rest
With(v, F(_)) == F(v)

\* the ? operator: the rest of the method runs only after an Ok
Try(r, F(_, _)) == IF r.err.kind = "Ok" THEN F(r.self, r.val) ELSE r

\* ------------------------------------------------------------------- state
VARIABLES
    xs,               \* [0..15 -> u32]
    fs,               \* [0..15 -> bits of an f32]
    flags,            \* u32
    interrupt_mask,   \* u8
    memmap,           \* u32
    system_sp,        \* u32
    interrupt_queue,  \* sequence of u32
    memory,           \* SimpleAddress.memory: address -> byte, the zero bytes left out
    overflow_checks,  \* whether the build panics on integer overflow (debug) or wraps
    nan_negative,     \* whether the host's default NaN has its sign bit set
    nan_second,       \* whether + and * of two NaNs give the second operand's NaN (as
                      \* the x86-64 builds do) or the first's
    panicked,         \* a call has panicked: the host program is gone
    last,             \* the last public call: what was called, on which state, how it ended
    arrived,          \* history: the ids irq() has pushed, in order
    serviced,         \* history: the ids call_interrupt() has been given, in order
    steps,            \* number of step() calls so far
    irqs              \* number of irq() calls so far

cpu_vars == << xs, fs, flags, interrupt_mask, memmap, system_sp, interrupt_queue, memory >>
vars == << xs, fs, flags, interrupt_mask, memmap, system_sp, interrupt_queue, memory,
           overflow_checks, nan_negative, nan_second, panicked, last, arrived, serviced,
           steps, irqs >>

\* the fields of Cpu as one record
Self ==
    [xs |-> xs, fs |-> fs, flags |-> flags, interrupt_mask |-> interrupt_mask,
     memmap |-> memmap, system_sp |-> system_sp, interrupt_queue |-> interrupt_queue,
     memory |-> memory]

\* ----------------------------------------------------------- SimpleAddress
\* the index of an address below SIMPLE_ADDRESS_SIZE
AddrIndex(addr) == addr[1] + 256 * addr[2] + 65536 * addr[3]

Address_read(mem, addr) ==
    IF LtW(addr, W32(SIMPLE_ADDRESS_SIZE))
    THEN IF AddrIndex(addr) \in DOMAIN mem THEN mem[AddrIndex(addr)] ELSE 0
    ELSE 0

Address_write(mem, addr, data) ==
    IF LtW(addr, W32(SIMPLE_ADDRESS_SIZE))
    THEN IF data = 0
         THEN [a \in DOMAIN mem \ {AddrIndex(addr)} |-> mem[a]]
         ELSE [a \in DOMAIN mem \cup {AddrIndex(addr)} |->
                  IF a = AddrIndex(addr) THEN data ELSE mem[a]]
    ELSE mem

\* ------------------------------------------------------------ arithmetic
\* a - b on u32: the wrapped difference and whether it borrowed
SubB(a, b) == With(AddC(a, NotW(b), 1), LAMBDA s : [w |-> s.w, b |-> 1 - s.c])

\* a + b on u32 as the build compiles it: a panic under overflow checks when the
\* sum does not fit, the wrapped sum otherwise
checked_add(a, b) ==
    With(AddC(a, b, 0), LAMBDA s :
        [err |-> IF s.c = 1 /\ overflow_checks THEN Panic ELSE Ok, val |-> s.w])

\* a - b on u32 as the build compiles it
checked_sub(a, b) ==
    With(SubB(a, b), LAMBDA s :
        [err |-> IF s.b = 1 /\ overflow_checks THEN Panic ELSE Ok, val |-> s.w])

\* --------------------------------------------------------------------- MMU
\* the four bus reads at base, base + 1, base + 2, base + 3 joined little-endian
read_table_word(mem, base) ==
    [err |-> checked_add(base, W32(3)).err,
     val |-> << Address_read(mem, base), Address_read(mem, AddC(base, W32(1), 0).w),
                Address_read(mem, AddC(base, W32(2), 0).w),
                Address_read(mem, AddC(base, W32(3), 0).w) >>]

\* the checks of check_memory on the leaf word plus the low 16 address bits
check_leaf(addr, permissions, p, phys) ==
    IF AndB(p, 8) = 0 THEN [err |-> UsedFreePage, val |-> addr]
    ELSE IF AndB(p, permissions) # permissions
         THEN [err |-> InvalidPermissions(p, permissions), val |-> addr]
    ELSE [err |-> Ok, val |-> phys]

check_memory(self, addr, permissions) ==
    IF Bit(self.flags, F_MEMMAP_ENABLE) # 0
    THEN With(checked_add(self.memmap, << addr[4], 0, 0, 0 >>), LAMBDA top :
         With(read_table_word(self.memory, top.val), LAMBDA table_addr :
             IF top.err # Ok \/ table_addr.err # Ok THEN [err |-> Panic, val |-> addr]
             ELSE IF table_addr.val = W32(0) THEN [err |-> UsedFreePage, val |-> addr]
             ELSE With(checked_add(table_addr.val, << addr[3], 0, 0, 0 >>), LAMBDA mid :
                  With(read_table_word(self.memory, mid.val), LAMBDA leaf :
                  With(checked_add(leaf.val, << addr[1], addr[2], 0, 0 >>), LAMBDA sum :
                      IF mid.err # Ok \/ leaf.err # Ok \/ sum.err # Ok
                      THEN [err |-> Panic, val |-> addr]
                      ELSE check_leaf(addr, permissions, sum.val[4] \div 16,
                                      << sum.val[1], sum.val[2], sum.val[3],
                                         sum.val[4] % 16 >>))))))
    ELSE [err |-> Ok, val |-> addr]

\* ------------------------------------------------------------------- flags
\* clear_flags!(self, f1, f2, ...): flags &= !(1 << f1 | 1 << f2 | ...)
clear_flags(self, fl) ==
    [self EXCEPT !.flags = FromBits([k \in 0..31 |-> IF k \in fl THEN 0 ELSE Bit(@, k)])]

set_flag(self, flag, val) ==
    [self EXCEPT !.flags =
        FromBits([k \in 0..31 |-> IF k = flag /\ val THEN 1 ELSE Bit(@, k)])]

get_flag(self, flag) == Bit(self.flags, flag) # 0

set_carry(self, val) == set_flag(clear_flags(self, {F_CARRY}), F_CARRY, val)

set_user_ring(self, val) ==
    IF ~get_flag(self, F_USER_RING)
    THEN Res(set_flag(clear_flags(self, {F_USER_RING}), F_USER_RING, val), Ok, 0)
    ELSE Res(self, UnprivilegedOpcode, 0)

\* set_memmap_enable without its ring check: what the method would do if the test of
\* USER_RING were dropped
set_memmap_enable_unchecked(self, val) ==
    Res(set_flag(clear_flags(self, {F_MEMMAP_ENABLE}), F_MEMMAP_ENABLE, val), Ok, 0)

set_memmap_enable(self, val) ==
    IF ~get_flag(self, F_USER_RING)
    THEN Res(set_flag(clear_flags(self, {F_MEMMAP_ENABLE}), F_MEMMAP_ENABLE, val), Ok, 0)
    ELSE Res(self, UnprivilegedOpcode, 0)

set_interrupt_enable(self, val) ==
    IF ~get_flag(self, F_USER_RING)
    THEN Res(set_flag(clear_flags(self, {F_INTERRUPT_ENABLE}), F_INTERRUPT_ENABLE, val), Ok, 0)
    ELSE Res(self, UnprivilegedOpcode, 0)

\* ------------------------------------------------------- exec, read, write
exec(self) ==
    With(check_memory(self, self.xs[R_PC], EXEC), LAMBDA addr :
        IF addr.err # Ok THEN Res(self, addr.err, 0)
        ELSE With(checked_add(self.xs[R_PC], W32(1)), LAMBDA pc :
            IF pc.err # Ok THEN Res(self, Panic, 0)
            ELSE Res([self EXCEPT !.xs[R_PC] = pc.val], Ok,
                     Address_read(self.memory, addr.val))))

read(self, addr) ==
    With(check_memory(self, addr, READ), LAMBDA a :
        IF a.err # Ok THEN Res(self, a.err, 0)
        ELSE Res(self, Ok, Address_read(self.memory, a.val)))

write(self, addr, data) ==
    With(check_memory(self, addr, WRITE), LAMBDA a :
        IF a.err # Ok THEN Res(self, a.err, 0)
        ELSE Res([self EXCEPT !.memory = Address_write(@, a.val, data)], Ok, 0))

\* exec()?, n times in order; val is the bytes fetched after those in got
RECURSIVE exec_bytes(_, _, _)
exec_bytes(self, n, got) ==
    IF n = 0 THEN Res(self, Ok, got)
    ELSE Try(exec(self), LAMBDA s, b : exec_bytes(s, n - 1, Append(got, b)))

\* the 32-bit immediate: exec()? | exec()? << 8 | exec()? << 16 | exec()? << 24
exec_u32(self) == exec_bytes(self, 4, << >>)

\* read(addr)?, read(addr + 1)?, ... for n bytes, in order; val is the bytes read
RECURSIVE read_bytes(_, _, _, _)
read_bytes(self, addr, n, got) ==
    IF n = 0 THEN Res(self, Ok, got)
    ELSE Try(read(self, addr), LAMBDA s, b :
        IF n = 1 THEN Res(s, Ok, Append(got, b))
        ELSE With(checked_add(addr, W32(1)), LAMBDA next :
            IF next.err # Ok THEN Res(s, Panic, got)
            ELSE read_bytes(s, next.val, n - 1, Append(got, b))))

\* read(addr)? | read(addr + 1)? << 8 | read(addr + 2)? << 16 | read(addr + 3)? << 24
\* (addr + i overflows exactly when addr + 1 + ... + 1 does)
read_u32(self, addr) == read_bytes(self, addr, 4, << >>)

\* write(addr, data[1])?, write(addr + 1, data[2])?, ... in order
RECURSIVE write_bytes(_, _, _)
write_bytes(self, addr, data) ==
    IF data = << >> THEN Res(self, Ok, 0)
    ELSE Try(write(self, addr, Head(data)), LAMBDA s, u :
        IF Len(data) = 1 THEN Res(s, Ok, 0)
        ELSE With(checked_add(addr, W32(1)), LAMBDA next :
            IF next.err # Ok THEN Res(s, Panic, 0)
            ELSE write_bytes(s, next.val, Tail(data))))

\* ------------------------------------------------------------ call and ret
\* for i in (0..4).rev() { write(xs[R_SP], (data >> (i * 8)) as u8)?; xs[R_SP] -= 1 }
RECURSIVE push_bytes(_, _, _)
push_bytes(self, data, n) ==
    IF n = 0 THEN Res(self, Ok, 0)
    ELSE Try(write(self, self.xs[R_SP], data[n]), LAMBDA s, u :
        With(checked_sub(s.xs[R_SP], W32(1)), LAMBDA sp :
            IF sp.err # Ok THEN Res(s, Panic, 0)
            ELSE push_bytes([s EXCEPT !.xs[R_SP] = sp.val], data, n - 1)))

\* call with the two pushes in the other order: the return address first, above the
\* caller's base pointer
call_pc_first(self) ==
    Try(exec_u32(self), LAMBDA s1, addr :
    Try(push_bytes(s1, s1.xs[R_PC], 4), LAMBDA s2, u2 :
    Try(push_bytes(s2, s2.xs[R_BASE], 4), LAMBDA s3, u3 :
        Res([s3 EXCEPT !.xs[R_BASE] = s3.xs[R_SP], !.xs[R_PC] = addr], Ok, 0))))

call(self) ==
    Try(exec_u32(self), LAMBDA s1, addr :
    Try(push_bytes(s1, s1.xs[R_BASE], 4), LAMBDA s2, u2 :
    Try(push_bytes(s2, s2.xs[R_PC], 4), LAMBDA s3, u3 :
        Res([s3 EXCEPT !.xs[R_BASE] = s3.xs[R_SP], !.xs[R_PC] = addr], Ok, 0))))

\* the byte b as a u32 shifted left by 8 * i
ByteShl(b, i) ==
    << IF i = 0 THEN b ELSE 0, IF i = 1 THEN b ELSE 0,
       IF i = 2 THEN b ELSE 0, IF i = 3 THEN b ELSE 0 >>

\* xs[R_BASE] += 1; read(xs[R_BASE])?
ret_byte(self) ==
    With(checked_add(self.xs[R_BASE], W32(1)), LAMBDA bp :
        IF bp.err # Ok THEN Res(self, Panic, 0)
        ELSE read([self EXCEPT !.xs[R_BASE] = bp.val], bp.val))

\* for i in 0..4 { xs[R_BASE] += 1; xs[R_PC] |= (read(xs[R_BASE])? as u32) << (8 * i) }
RECURSIVE ret_pc(_, _)
ret_pc(self, i) ==
    IF i = 4 THEN Res(self, Ok, 0)
    ELSE Try(ret_byte(self), LAMBDA s, b :
        ret_pc([s EXCEPT !.xs[R_PC] = OrW(@, ByteShl(b, i))], i + 1))

\* for i in 0..4 { xs[R_BASE] += 1; data |= (read(xs[R_BASE])? as u32) << (8 * i) }
RECURSIVE ret_data(_, _, _)
ret_data(self, i, data) ==
    IF i = 4 THEN Res(self, Ok, data)
    ELSE Try(ret_byte(self), LAMBDA s, b : ret_data(s, i + 1, OrW(data, ByteShl(b, i))))

\* ret that leaves the stack pointer where the callee moved it
ret_keep_sp(self) ==
    Try(ret_pc([self EXCEPT !.xs[R_PC] = W32(0)], 0), LAMBDA s1, u1 :
    Try(ret_data(s1, 0, W32(0)), LAMBDA s2, data :
        Res([s2 EXCEPT !.xs[R_BASE] = data], Ok, 0)))

ret(self) ==
    Try(ret_pc([self EXCEPT !.xs[R_PC] = W32(0)], 0), LAMBDA s1, u1 :
    Try(ret_data(s1, 0, W32(0)), LAMBDA s2, data :
        Res([s2 EXCEPT !.xs[R_SP] = s2.xs[R_BASE], !.xs[R_BASE] = data], Ok, 0)))

\* ---------------------------------------------------------------- branches
\* branch_true that tests the flag first and reads the target only when it branches
branch_true_test_first(self, flag) ==
    IF Bit(self.flags, flag) # 0
    THEN Try(exec_u32(self), LAMBDA s1, addr : Res([s1 EXCEPT !.xs[R_PC] = addr], Ok, 0))
    ELSE Res(self, Ok, 0)

branch_true(self, flag) ==
    Try(exec_u32(self), LAMBDA s1, addr :
        Res(IF Bit(s1.flags, flag) # 0 THEN [s1 EXCEPT !.xs[R_PC] = addr] ELSE s1, Ok, 0))

branch_false(self, flag) ==
    Try(exec_u32(self), LAMBDA s1, addr :
        Res(IF Bit(s1.flags, flag) = 0 THEN [s1 EXCEPT !.xs[R_PC] = addr] ELSE s1, Ok, 0))

\* ------------------------------------------------------------- integer ALU
update_flags_int(self, x) ==
    set_flag(set_flag(set_flag(clear_flags(self, {F_ZERO, F_NEGATIVE, F_PARITY}),
                               F_ZERO, x = W32(0)),
                      F_NEGATIVE, Bit(x, 31) # 0),
             F_PARITY, Bit(x, 0) # 0)

\* xs[x0] = data; update_flags_int(xs[x0])
set_int(self, x0, data) == update_flags_int([self EXCEPT !.xs[x0] = data], data)

load_lit_int(self, x0) ==
    Try(exec_u32(self), LAMBDA s1, data : Res(set_int(s1, x0, data), Ok, 0))

\* load_int that clears its destination and derives the flags before the data is read
load_int_clear_first(self, x0) ==
    Try(exec_u32(self), LAMBDA s1, addr :
    Try(read_u32(set_int(s1, x0, W32(0)), addr), LAMBDA s2, data :
        Res(set_int(s2, x0, data), Ok, 0)))

load_int(self, x0) ==
    Try(exec_u32(self), LAMBDA s1, addr :
    Try(read_u32(s1, addr), LAMBDA s2, data : Res(set_int(s2, x0, data), Ok, 0)))

\* iadd without the clear_flags! before the flags are set: stale bits survive
iadd_keep_flags(self, x0, x1) ==
    With(AddC(self.xs[x0], self.xs[x1], Bit(self.flags, F_CARRY)), LAMBDA res :
    With(set_flag(set_flag(set_flag(set_flag(set_flag(self,
             F_ZERO, res.w = W32(0)),
             F_NEGATIVE, Bit(res.w, 31) # 0),
             F_CARRY, res.c # 0),
             F_OVERFLOW, Bit(self.xs[x0], 31) = Bit(self.xs[x1], 31)
                         /\ Bit(self.xs[x0], 31) # Bit(res.w, 31)),
             F_PARITY, Bit(res.w, 0) # 0),
         LAMBDA s : [s EXCEPT !.xs[x0] = res.w]))

iadd(self, x0, x1) ==
    With(AddC(self.xs[x0], self.xs[x1], Bit(self.flags, F_CARRY)), LAMBDA res :
    With(set_flag(set_flag(set_flag(set_flag(set_flag(
             clear_flags(self, {F_ZERO, F_OVERFLOW, F_CARRY, F_NEGATIVE, F_PARITY}),
             F_ZERO, res.w = W32(0)),
             F_NEGATIVE, Bit(res.w, 31) # 0),
             F_CARRY, res.c # 0),
             F_OVERFLOW, Bit(self.xs[x0], 31) = Bit(self.xs[x1], 31)
                         /\ Bit(self.xs[x0], 31) # Bit(res.w, 31)),
             F_PARITY, Bit(res.w, 0) # 0),
         LAMBDA s : [s EXCEPT !.xs[x0] = res.w]))

\* isub that leaves the operand register complemented
isub_no_restore(self, x0, x1) == iadd([self EXCEPT !.xs[x1] = NotW(@)], x0, x1)

isub(self, x0, x1) ==
    With(iadd([self EXCEPT !.xs[x1] = NotW(@)], x0, x1), LAMBDA s :
        [s EXCEPT !.xs[x1] = NotW(@)])

\* columns k..6 of the byte-wise product of a and b, carry coming in: the eight
\* product bytes from byte k on
RECURSIVE MulCols(_, _, _, _)
MulCols(a, b, k, carry) ==
    IF k = 7 THEN << carry % 256 >>
    ELSE With(carry
              + (IF k \in 0..3 THEN a[1] * b[k + 1] ELSE 0)
              + (IF k - 1 \in 0..3 THEN a[2] * b[k] ELSE 0)
              + (IF k - 2 \in 0..3 THEN a[3] * b[k - 1] ELSE 0)
              + (IF k - 3 \in 0..3 THEN a[4] * b[k - 2] ELSE 0),
              LAMBDA sum : << sum % 256 >> \o MulCols(a, b, k + 1, sum \div 256))

\* a * b in a 64-bit intermediate: the low 32 bits, and whether the product fits
MulW(a, b) ==
    With(MulCols(a, b, 0, 0), LAMBDA prod :
        [w |-> SubSeq(prod, 1, 4), overflow |-> SubSeq(prod, 5, 8) # << 0, 0, 0, 0 >>])

imul(self, x0, x1) ==
    With(MulW(self.xs[x0], self.xs[x1]), LAMBDA m :
        IF m.overflow /\ overflow_checks THEN Res(self, Panic, 0)
        ELSE Res(set_int(self, x0, m.w), Ok, 0))

\* a / b and a % b on u32, b non-zero: restoring division from bit i down to bit 0,
\* rem the running remainder and q the quotient bits set so far
RECURSIVE DivMod(_, _, _, _, _)
DivMod(a, b, i, rem, q) ==
    IF i < 0 THEN [quot |-> FromBits([k \in 0..31 |-> IF k \in q THEN 1 ELSE 0]), rem |-> rem]
    ELSE With(AddC(rem, rem, Bit(a, i)), LAMBDA sh :
        IF sh.c = 1 \/ ~LtW(sh.w, b)
        THEN DivMod(a, b, i - 1, SubB(sh.w, b).w, q \cup {i})
        ELSE DivMod(a, b, i - 1, sh.w, q))

idiv(self, x0, x1) ==
    IF self.xs[x1] = W32(0) THEN Res(self, Panic, 0)
    ELSE Res(set_int(self, x0, DivMod(self.xs[x0], self.xs[x1], 31, W32(0), {}).quot), Ok, 0)

imod(self, x0, x1) ==
    IF self.xs[x1] = W32(0) THEN Res(self, Panic, 0)
    ELSE Res(set_int(self, x0, DivMod(self.xs[x0], self.xs[x1], 31, W32(0), {}).rem), Ok, 0)

\* the tail of bsl and bsr: the flags and xs[x0] from the 64-bit intermediate res, of
\* which bit 0 (res0), bit 31 and the low 32 bits (low) are used, and the new CARRY
shift_result(self, x0, x1, res0, res31, low, carry) ==
    With(set_flag(set_flag(clear_flags(self, {F_ZERO, F_CARRY, F_NEGATIVE, F_PARITY}),
                           F_ZERO, low = W32(0)),
                  F_NEGATIVE, res31 # 0),
         LAMBDA s :
             [set_flag(IF self.xs[x1] = W32(1) THEN set_flag(s, F_CARRY, carry) ELSE s,
                       F_PARITY, res0 # 0)
              EXCEPT !.xs[x0] = low])

bsl(self, x0, x1) ==
    With([k \in 0..63 |->
             IF k = 0 /\ Bit(self.flags, F_CARRY) = 1 THEN 1
             ELSE IF LtW(self.xs[x1], W32(32)) /\ k - self.xs[x1][1] \in 0..31
                  THEN Bit(self.xs[x0], k - self.xs[x1][1]) ELSE 0],
         LAMBDA res : shift_result(self, x0, x1, res[0], res[31], FromBits(res), res[32] # 0))

bsr(self, x0, x1) ==
    With([k \in 0..63 |->
             IF k = 0 /\ Bit(self.flags, F_CARRY) = 1 THEN 1
             ELSE IF LtW(self.xs[x1], W32(32)) /\ k + self.xs[x1][1] \in 0..31
                  THEN Bit(self.xs[x0], k + self.xs[x1][1]) ELSE 0],
         LAMBDA res : shift_result(self, x0, x1, res[0], res[31], FromBits(res),
                                   Bit(self.xs[x0], 0) # 0))

and(self, x0, x1) == set_int(self, x0, AndW(self.xs[x0], self.xs[x1]))

or(self, x0, x1) == set_int(self, x0, OrW(self.xs[x0], self.xs[x1]))

xor(self, x0, x1) == set_int(self, x0, XorW(self.xs[x0], self.xs[x1]))

move_int(self, x0, x1) == set_int(self, x0, self.xs[x1])

\* ------------------------------------------------- indirect loads, stores
load_indirect_int(self, x0, addr) ==
    Try(read_u32(self, self.xs[addr]), LAMBDA s1, data : Res(set_int(s1, x0, data), Ok, 0))

store_indirect_int(self, x0, addr) == write_bytes(self, self.xs[addr], self.xs[x0])

store_indirect_short(self, x0, addr) ==
    write_bytes(self, self.xs[addr], SubSeq(self.xs[x0], 1, 2))

store_indirect_byte(self, x0, addr) ==
    write_bytes(self, self.xs[addr], SubSeq(self.xs[x0], 1, 1))

store_indirect_float(self, f0, addr) == write_bytes(self, self.xs[addr], self.fs[f0])

store_int(self, x0) ==
    Try(exec_u32(self), LAMBDA s1, addr : write_bytes(s1, addr, s1.xs[x0]))

\* store_short that writes the whole register
store_short_whole(self, x0) ==
    Try(exec_u32(self), LAMBDA s1, addr : write_bytes(s1, addr, s1.xs[x0]))

store_short(self, x0) ==
    Try(exec_u32(self), LAMBDA s1, addr : write_bytes(s1, addr, SubSeq(s1.xs[x0], 1, 2)))

store_byte(self, x0) ==
    Try(exec_u32(self), LAMBDA s1, addr : write_bytes(s1, addr, SubSeq(s1.xs[x0], 1, 1)))

store_float(self, f0) ==
    Try(exec_u32(self), LAMBDA s1, addr : write_bytes(s1, addr, s1.fs[f0]))

\* ------------------------------------------------------- control registers
privileged_move(self, x0, p) ==
    IF AndW(W32(p), W32(F_USER_RING)) # W32(0) THEN Res(self, UnprivilegedOpcode, 0)
    ELSE Res(CASE p = 0 -> [self EXCEPT !.flags = self.xs[x0]]
               [] p = 1 -> [self EXCEPT !.memmap = self.xs[x0]]
               [] p = 2 -> [self EXCEPT !.interrupt_mask = self.xs[x0][1]]
               [] OTHER -> self,
             Ok, 0)

unprivileged_move(self, p, x0) ==
    CASE p = 0 -> [self EXCEPT !.xs[x0] = self.flags]
      [] p = 1 -> [self EXCEPT !.xs[x0] = self.memmap]
      [] p = 2 -> [self EXCEPT !.xs[x0] = << self.interrupt_mask, 0, 0, 0 >>]
      [] OTHER -> self

\* ------------------------------------------------------------------ floats
\* an f32 is kept as its 32 bits; the fields of those bits
FSign(x) == x[4] \div 128
FExp(x) == (x[4] % 128) * 2 + (x[3] \div 128)
FMant(x) == (x[3] % 128) * 65536 + x[2] * 256 + x[1]
is_nan(x) == FExp(x) = 255 /\ FMant(x) # 0
is_infinite(x) == FExp(x) = 255 /\ FMant(x) = 0

update_flags_float(self, x) ==
    set_flag(set_flag(set_flag(set_flag(
        clear_flags(self, {F_ZERO, F_NEGATIVE, F_NAN, F_INFINITE}),
        F_ZERO, FExp(x) = 0 /\ FMant(x) = 0),
        F_NEGATIVE, FSign(x) = 1),
        F_NAN, is_nan(x)),
        F_INFINITE, is_infinite(x))

\* fs[f0] = data; update_flags_float(fs[f0])
set_float(self, f0, data) == update_flags_float([self EXCEPT !.fs[f0] = data], data)

load_lit_float(self, f0) ==
    Try(exec_u32(self), LAMBDA s1, data : Res(set_float(s1, f0, data), Ok, 0))

load_float(self, f0) ==
    Try(exec_u32(self), LAMBDA s1, addr :
    Try(read_u32(s1, addr), LAMBDA s2, data : Res(set_float(s2, f0, data), Ok, 0)))

load_indirect_float(self, f0, addr) ==
    Try(read_u32(self, self.xs[addr]), LAMBDA s1, data : Res(set_float(s1, f0, data), Ok, 0))

move_float(self, x0, x1) == set_float(self, x0, self.fs[x1])

transmute_int_float(self, x0, f1) == set_int(self, x0, self.fs[f1])

transmute_float_int(self, f0, x1) == set_float(self, f0, self.xs[x1])

\* the f32 with the given sign, exponent field and fraction field
FPack(sign, e, m) ==
    << m % 256, (m \div 256) % 256, (e % 2) * 128 + (m \div 65536), sign * 128 + (e \div 2) >>

\* a finite f32 as m * 2^q with m below 2^24
FSig(x) == IF FExp(x) = 0 THEN FMant(x) ELSE FMant(x) + 8388608
FQ(x) == IF FExp(x) = 0 THEN -149 ELSE FExp(x) - 150

\* the number of bits of n
RECURSIVE BitLen(_)
BitLen(n) == IF n = 0 THEN 0 ELSE 1 + BitLen(n \div 2)

\* m / 2^shift to the nearest integer, ties to even, where sticky says that m stands
\* for a value strictly between m and m + 1
FShiftRound(m, shift, sticky) ==
    IF m % (2 ^ shift) > 2 ^ (shift - 1)
       \/ (m % (2 ^ shift) = 2 ^ (shift - 1) /\ (sticky \/ (m \div (2 ^ shift)) % 2 = 1))
    THEN m \div (2 ^ shift) + 1
    ELSE m \div (2 ^ shift)

\* the f32 of significand sig (up to 2^24) at exponent qt, a zero when sig is 0
FEncode(sign, qt, sig) ==
    IF sig = 0 THEN FPack(sign, 0, 0)
    ELSE IF qt + 149 + (sig \div 8388608) >= 255 THEN FPack(sign, 255, 0)
    ELSE FPack(sign, qt + 149 + (sig \div 8388608), sig % 8388608)

\* FRound with len the number of bits of m and qt the exponent of the result
FRoundAt(sign, q, m, sticky, len, qt) ==
    FEncode(sign, qt,
            IF qt - q <= 0 THEN m * (2 ^ (q - qt))
            ELSE IF qt - q > len THEN 0
            ELSE FShiftRound(m, qt - q, sticky))

\* the f32 nearest to (m + f) * 2^q, ties to even, where f is 0, or a fraction
\* strictly between 0 and 1 when sticky; overflow gives an infinity
FRound(sign, q, m, sticky) ==
    With(BitLen(m), LAMBDA len :
        FRoundAt(sign, q, m, sticky, len, IF q + len - 24 > -149 THEN q + len - 24 ELSE -149))

\* the NaN an invalid operation produces: quiet, no payload, the sign the host's
FDefaultNaN == FPack(IF nan_negative THEN 1 ELSE 0, 255, 4194304)

\* a NaN operand as the result: made quiet
FQuiet(x) == OrW(x, FPack(0, 0, 4194304))

\* the sum of two finite f32, the first no smaller in magnitude: signs, significands,
\* exponents; d is the exponent difference
FAddMag(sBig, mBig, qBig, sSmall, mSmall, d) ==
    With(IF d > 27 THEN 0 ELSE (mSmall * 8) \div (2 ^ d), LAMBDA shifted :
    With(IF d > 27 THEN mSmall # 0 ELSE (mSmall * 8) % (2 ^ d) # 0, LAMBDA sticky :
        IF sBig = sSmall THEN FRound(sBig, qBig - 3, mBig * 8 + shifted, sticky)
        ELSE IF mBig * 8 - shifted = 0 /\ ~sticky THEN FPack(0, 0, 0)
        ELSE FRound(sBig, qBig - 3, mBig * 8 - shifted - (IF sticky THEN 1 ELSE 0), sticky)))

\* the NaN a commutative operation on two NaNs gives: Rust does not fix which
\* operand's, the build does
FEitherNaN(a, b) == IF nan_second THEN FQuiet(b) ELSE FQuiet(a)

\* a + b, where sb is the sign b is taken with (flipped for a - b, which is not
\* commutative and keeps the first operand's NaN)
FAdd(a, b, sb) ==
    IF is_nan(a) /\ is_nan(b) /\ sb = FSign(b) THEN FEitherNaN(a, b)
    ELSE IF is_nan(a) THEN FQuiet(a)
    ELSE IF is_nan(b) THEN FQuiet(b)
    ELSE IF is_infinite(a)
         THEN IF is_infinite(b) /\ FSign(a) # sb THEN FDefaultNaN ELSE a
    ELSE IF is_infinite(b) THEN FPack(sb, 255, 0)
    ELSE IF FQ(a) > FQ(b) \/ (FQ(a) = FQ(b) /\ FSig(a) >= FSig(b))
         THEN FAddMag(FSign(a), FSig(a), FQ(a), sb, FSig(b), FQ(a) - FQ(b))
    ELSE FAddMag(sb, FSig(b), FQ(b), FSign(a), FSig(a), FQ(b) - FQ(a))

\* the left shift that brings a non-zero significand into [2^23, 2^24)
FNorm(m) == 24 - BitLen(m)

\* the product of the significands ma and mb, both in [2^23, 2^24), at exponent q
FMulSig(sign, ma, mb, q) ==
    With((ma \div 4096) * (mb % 4096) + (ma % 4096) * (mb \div 4096), LAMBDA mid :
    With((ma % 4096) * (mb % 4096) + (mid % 4096) * 4096, LAMBDA t :
        FRound(sign, q + 22,
               ((ma \div 4096) * (mb \div 4096) + (mid \div 4096) + (t \div 16777216)) * 4
               + ((t % 16777216) \div 4194304),
               (t % 16777216) % 4194304 # 0)))

FMul(a, b) ==
    IF is_nan(a) /\ is_nan(b) THEN FEitherNaN(a, b)
    ELSE IF is_nan(a) THEN FQuiet(a)
    ELSE IF is_nan(b) THEN FQuiet(b)
    ELSE IF is_infinite(a) \/ is_infinite(b)
         THEN IF (~is_infinite(a) /\ FSig(a) = 0) \/ (~is_infinite(b) /\ FSig(b) = 0)
              THEN FDefaultNaN ELSE FPack((FSign(a) + FSign(b)) % 2, 255, 0)
    ELSE IF FSig(a) = 0 \/ FSig(b) = 0 THEN FPack((FSign(a) + FSign(b)) % 2, 0, 0)
    ELSE FMulSig((FSign(a) + FSign(b)) % 2,
                 FSig(a) * (2 ^ FNorm(FSig(a))), FSig(b) * (2 ^ FNorm(FSig(b))),
                 FQ(a) - FNorm(FSig(a)) + FQ(b) - FNorm(FSig(b)))

\* n more bits of the quotient of rem / mb after the quotient bits quot
RECURSIVE FDivBits(_, _, _, _)
FDivBits(rem, mb, n, quot) ==
    IF n = 0 THEN [quot |-> quot, rem |-> rem]
    ELSE IF 2 * rem >= mb THEN FDivBits(2 * rem - mb, mb, n - 1, 2 * quot + 1)
    ELSE FDivBits(2 * rem, mb, n - 1, 2 * quot)

\* the quotient of the significands ma and mb, both in [2^23, 2^24), at exponent q
FDivSig(sign, ma, mb, q) ==
    With(FDivBits(ma % mb, mb, 26, ma \div mb), LAMBDA d :
        FRound(sign, q - 26, d.quot, d.rem # 0))

FDiv(a, b) ==
    IF is_nan(a) THEN FQuiet(a)
    ELSE IF is_nan(b) THEN FQuiet(b)
    ELSE IF is_infinite(a)
         THEN IF is_infinite(b) THEN FDefaultNaN ELSE FPack((FSign(a) + FSign(b)) % 2, 255, 0)
    ELSE IF is_infinite(b) THEN FPack((FSign(a) + FSign(b)) % 2, 0, 0)
    ELSE IF FSig(b) = 0
         THEN IF FSig(a) = 0 THEN FDefaultNaN ELSE FPack((FSign(a) + FSign(b)) % 2, 255, 0)
    ELSE IF FSig(a) = 0 THEN FPack((FSign(a) + FSign(b)) % 2, 0, 0)
    ELSE FDivSig((FSign(a) + FSign(b)) % 2,
                 FSig(a) * (2 ^ FNorm(FSig(a))), FSig(b) * (2 ^ FNorm(FSig(b))),
                 (FQ(a) - FNorm(FSig(a))) - (FQ(b) - FNorm(FSig(b))))

\* the u32 of the i32 of sign and magnitude mag (below 2^31)
IntOf(sign, mag) == IF sign = 1 THEN SubB(W32(0), W32(mag)).w ELSE W32(mag)

\* (x as i32) as u32 for an f32 x: toward zero, saturating, NaN to 0
FToInt(x) ==
    IF is_nan(x) \/ FExp(x) < 127 THEN W32(0)
    ELSE IF FExp(x) >= 158
         THEN IF FSign(x) = 1 THEN << 0, 0, 0, 128 >> ELSE << 255, 255, 255, 127 >>
    ELSE IF FQ(x) >= 0 THEN IntOf(FSign(x), FSig(x) * (2 ^ FQ(x)))
    ELSE IntOf(FSign(x), FSig(x) \div (2 ^ (-FQ(x))))

\* the f32 nearest to the magnitude mag (a u32, up to 2^31) with the given sign
FFromMag(sign, mag) ==
    IF mag[4] < 64
    THEN FRound(sign, 0, mag[4] * 16777216 + mag[3] * 65536 + mag[2] * 256 + mag[1], FALSE)
    ELSE FRound(sign, 2, mag[4] * 4194304 + mag[3] * 16384 + mag[2] * 64 + (mag[1] \div 4),
                mag[1] % 4 # 0)

\* (x as i32) as f32 for a u32 x: nearest, ties to even
FFromInt(x) == FFromMag(Bit(x, 31), IF Bit(x, 31) = 1 THEN SubB(W32(0), x).w ELSE x)

fadd(self, f0, f1) == set_float(self, f0, FAdd(self.fs[f0], self.fs[f1], FSign(self.fs[f1])))

fsub(self, f0, f1) ==
    set_float(self, f0, FAdd(self.fs[f0], self.fs[f1], 1 - FSign(self.fs[f1])))

fmul(self, f0, f1) == set_float(self, f0, FMul(self.fs[f0], self.fs[f1]))

fdiv(self, f0, f1) == set_float(self, f0, FDiv(self.fs[f0], self.fs[f1]))

move_int_float(self, x0, f1) == set_int(self, x0, FToInt(self.fs[f1]))

move_float_int(self, f0, x1) == set_float(self, f0, FFromInt(self.xs[x1]))

\* an undefined sub-code that leaves user ring: set_user_ring(false)
undefined_subcode_leaves_ring(self) == set_user_ring(self, FALSE)

\* the arm `_ => ()` of the sub-codes that are not defined
undefined_subcode(self) == Res(self, Ok, 0)

\* ----------------------------------------------------------------- decoder
\* 0b00xxxxxx: no arguments
decode_none(self, sub) ==
    CASE sub = 0 -> branch_true(self, F_ZERO)
      [] sub = 1 -> branch_true(self, F_OVERFLOW)
      [] sub = 2 -> branch_true(self, F_CARRY)
      [] sub = 3 -> branch_true(self, F_NEGATIVE)
      [] sub = 4 -> branch_true(self, F_PARITY)
      [] sub = 5 -> branch_true(self, F_NAN)
      [] sub = 6 -> branch_true(self, F_INFINITE)
      [] sub = 7 -> branch_true(self, F_MEMMAP_ENABLE)
      [] sub = 8 -> branch_false(self, F_ZERO)
      [] sub = 9 -> branch_false(self, F_OVERFLOW)
      [] sub = 10 -> branch_false(self, F_CARRY)
      [] sub = 11 -> branch_false(self, F_NEGATIVE)
      [] sub = 12 -> branch_false(self, F_PARITY)
      [] sub = 13 -> branch_false(self, F_NAN)
      [] sub = 14 -> branch_false(self, F_INFINITE)
      [] sub = 15 -> branch_false(self, F_MEMMAP_ENABLE)
      [] sub = 16 -> Res(set_carry(self, FALSE), Ok, 0)
      [] sub = 17 -> Res(set_carry(self, TRUE), Ok, 0)
      [] sub = 18 -> set_memmap_enable(self, FALSE)
      [] sub = 19 -> set_memmap_enable(self, TRUE)
      [] sub = 20 -> set_interrupt_enable(self, FALSE)
      [] sub = 21 -> set_interrupt_enable(self, TRUE)
      [] sub = 23 -> set_user_ring(self, TRUE)
      [] sub = 24 -> call(self)
      [] sub = 25 -> ret(self)
      [] OTHER -> undefined_subcode(self)

\* 0b01xxyyyy data: one register argument and 32 bit data
decode_load(self, kind, data) ==
    CASE kind = 0 -> load_lit_int(self, data)
      [] kind = 1 -> load_lit_float(self, data)
      [] kind = 2 -> load_int(self, data)
      [] kind = 3 -> load_float(self, data)

\* 0b10xxxxxx 0byyyyzzzz: two register arguments
decode_two(self, sub) ==
    Try(exec(self), LAMBDA s, data :
        LET fst == data \div 16
            snd == data % 16
        IN  CASE sub = 0 -> Res(iadd(s, fst, snd), Ok, 0)
              [] sub = 1 -> Res(isub(s, fst, snd), Ok, 0)
              [] sub = 2 -> imul(s, fst, snd)
              [] sub = 3 -> idiv(s, fst, snd)
              [] sub = 4 -> imod(s, fst, snd)
              [] sub = 5 -> Res(fadd(s, fst, snd), Ok, 0)
              [] sub = 6 -> Res(fsub(s, fst, snd), Ok, 0)
              [] sub = 7 -> Res(fmul(s, fst, snd), Ok, 0)
              [] sub = 8 -> Res(fdiv(s, fst, snd), Ok, 0)
              [] sub = 9 -> Res(bsl(s, fst, snd), Ok, 0)
              [] sub = 10 -> Res(bsr(s, fst, snd), Ok, 0)
              [] sub = 11 -> Res(and(s, fst, snd), Ok, 0)
              [] sub = 12 -> Res(or(s, fst, snd), Ok, 0)
              [] sub = 13 -> Res(xor(s, fst, snd), Ok, 0)
              [] sub = 14 -> Res(move_int(s, fst, snd), Ok, 0)
              [] sub = 15 -> Res(move_float(s, fst, snd), Ok, 0)
              [] sub = 16 -> Res(move_int_float(s, fst, snd), Ok, 0)
              [] sub = 17 -> Res(move_float_int(s, fst, snd), Ok, 0)
              [] sub = 18 -> Res(transmute_int_float(s, fst, snd), Ok, 0)
              [] sub = 19 -> Res(transmute_float_int(s, fst, snd), Ok, 0)
              [] sub = 20 -> load_indirect_int(s, fst, snd)
              [] sub = 21 -> load_indirect_float(s, fst, snd)
              [] sub = 22 -> store_indirect_int(s, fst, snd)
              [] sub = 23 -> store_indirect_short(s, fst, snd)
              [] sub = 24 -> store_indirect_byte(s, fst, snd)
              [] sub = 25 -> store_indirect_float(s, fst, snd)
              [] sub = 26 -> privileged_move(s, fst, snd)
              [] sub = 27 -> Res(unprivileged_move(s, fst, snd), Ok, 0)
              [] OTHER -> undefined_subcode(s))

\* 0b11xxyyyy data: one register argument and 32 bit data
decode_store(self, kind, data) ==
    CASE kind = 0 -> store_int(self, data)
      [] kind = 1 -> store_short(self, data)
      [] kind = 2 -> store_byte(self, data)
      [] kind = 3 -> store_float(self, data)

decode_instruction(self) ==
    Try(exec(self), LAMBDA s, opcode :
        With(CASE opcode \div 64 = 0 -> decode_none(s, opcode % 64)
               [] opcode \div 64 = 1 -> decode_load(s, (opcode \div 16) % 4, opcode % 16)
               [] opcode \div 64 = 2 -> decode_two(s, opcode % 64)
               [] opcode \div 64 = 3 -> decode_store(s, (opcode \div 16) % 4, opcode % 16),
             LAMBDA r : Res(r.self, r.err, 0)))

\* -------------------------------------------------------------- interrupts
\* call_interrupt that also transfers control, to a handler at the interrupt's number
call_interrupt_jump(self, interrupt) ==
    [self EXCEPT !.xs[R_INT] = interrupt, !.xs[R_PC] = interrupt]

call_interrupt(self, interrupt) ==
    LET s1 == [self EXCEPT !.xs[R_INT] = interrupt]
    IN  IF get_flag(s1, F_USER_RING)
        THEN [s1 EXCEPT !.xs[R_SP] = s1.system_sp, !.xs[R_BASE] = W32(0)]
        ELSE s1

\* nmi with the body that is commented out: the id, tagged, joins the queue
nmi_queued(self, id) ==
    [self EXCEPT !.interrupt_queue = Append(@, OrW(id, << 0, 0, 0, 128 >>))]

nmi(self, id) == self

\* the NMI id step() gives a fault
nmi_id(e) ==
    CASE e.kind = "UsedFreePage" -> W32(0)
      [] e.kind = "InvalidPermissions" -> W32(1)
      [] e.kind = "UnprivilegedOpcode" -> W32(2)

\* step(): the Cpu after it; whether it serviced an interrupt or ran an instruction;
\* the fault of the instruction, if any; Panic if the host panicked
step(self) ==
    IF self.interrupt_queue # << >> /\ AndW(self.flags, W32(F_INTERRUPT_ENABLE)) # W32(0)
    THEN [self |-> call_interrupt([self EXCEPT !.interrupt_queue = Tail(@)],
                                  Head(self.interrupt_queue)),
          err |-> Ok, path |-> "interrupt", fault |-> Ok]
    ELSE With(decode_instruction(self), LAMBDA r :
             IF r.err = Ok \/ r.err = Panic
             THEN [self |-> r.self, err |-> r.err, path |-> "instruction", fault |-> Ok]
             ELSE [self |-> nmi(r.self, nmi_id(r.err)), err |-> Ok,
                   path |-> "instruction", fault |-> r.err])

\* irq with push_front in place of push_back: a queue that is not first in, first out
irq_push_front(self, id) ==
    IF id >= 8 /\ overflow_checks THEN Res(self, Panic, 0)
    ELSE IF AndB(2 ^ (id % 8), self.interrupt_mask) # 0
         THEN Res([self EXCEPT !.interrupt_queue = << W32(id) >> \o @], Ok, 0)
         ELSE Res(self, Ok, 0)

\* irq(id): 1 << id is a u8 shift, which overflows for id >= 8: a panic under
\* overflow checks, a shift by id & 7 otherwise
irq(self, id) ==
    IF id >= 8 /\ overflow_checks THEN Res(self, Panic, 0)
    ELSE IF AndB(2 ^ (id % 8), self.interrupt_mask) # 0
         THEN Res([self EXCEPT !.interrupt_queue = Append(@, W32(id))], Ok, 0)
         ELSE Res(self, Ok, 0)

\* --------------------------------------------------------- initial memory
\* a memory holding `bytes` from address `base` on, zero elsewhere
Image(base, bytes) ==
    [a \in {base + i - 1 : i \in {j \in 1..Len(bytes) : bytes[j] # 0}} |-> bytes[a - base + 1]]

\* the programs the runs start from, each loaded at address 0 where PC starts
Programs ==
    { \* set INTERRUPT_ENABLE, then clear and set CARRY
      Image(0, << 21, 16, 17 >>),
      \* x0 = 1; flags = x0; set CARRY
      Image(0, << 64, 1, 0, 0, 0, 154, 0, 17 >>),
      \* set USER_RING; set MEMMAP_ENABLE; set INTERRUPT_ENABLE; set USER_RING; flags = x0
      Image(0, << 23, 19, 21, 23, 154, 0 >>),
      \* x15 = 0x1234; x0 = 0x0801; flags = x0 (USER_RING and a last-interrupt bit)
      Image(0, << 79, 52, 18, 0, 0, 64, 1, 8, 0, 0, 154, 0 >>),
      \* x0 = 0x1234; memmap = x0; interrupt_mask = x0; selector 4; x0 = flags
      Image(0, << 64, 52, 18, 0, 0, 154, 1, 154, 2, 154, 4, 155, 0 >>),
      \* set MEMMAP_ENABLE with memmap = 0: the top table entry is 0x00000013, the leaf
      \* at 0x13 is zero
      Image(0, << 19 >>),
      \* the same with a leaf 0xc0000000 at 0x13: present, READ only
      Image(0, << 19 >>) @@ Image(19, << 0, 0, 0, 192 >>),
      \* the same with a leaf 0xf0000000 at 0x13: present, READ, WRITE, EXEC, base 0;
      \* and a second leaf 0xf0010000 four bytes on, at 0x17; then a branch on ZERO (not
      \* taken); set CARRY; store-byte x13 at 0x20; load x0 from 0x00010000
      Image(0, << 19, 0, 0, 0, 0, 0, 17, 237, 32, 0, 0, 0, 96, 0, 0, 1, 0 >>)
          @@ Image(19, << 0, 0, 0, 240, 0, 0, 1, 240 >>),
      \* the same with a leaf 0x8fffffff at 0x13: present, no READ, WRITE or EXEC
      Image(0, << 19 >>) @@ Image(19, << 255, 255, 255, 143 >>),
      \* branch on ZERO (not taken); set MEMMAP_ENABLE with a zero top table entry
      Image(0, << 0, 0, 0, 0, 0, 19 >>),
      \* x15 = 0x40; x14 = 0x04030201; call 0x20; at 0x20: ret
      Image(0, << 79, 64, 0, 0, 0, 78, 1, 2, 3, 4, 24, 32, 0, 0, 0 >>) @@ Image(32, << 25 >>),
      \* call 0x20 with the stack pointer still 0; at 0x20: ret
      Image(0, << 24, 32, 0, 0, 0 >>) @@ Image(32, << 25 >>),
      \* set MEMMAP_ENABLE with the leaf 0xf0000000 at 0x13; branch on ZERO (not taken);
      \* x15 = 0x40; call 0x30; at 0x30: ret
      Image(0, << 19, 0, 0, 0, 0, 0, 79, 64, 0, 0, 0, 24, 48, 0, 0, 0 >>)
          @@ Image(19, << 0, 0, 0, 240 >>) @@ Image(48, << 25 >>),
      \* x0 = 0x1001; flags = x0 (MEMMAP_ENABLE and flag bit 0): the top table entry is
      \* 0x00100140 and the leaf there is zero
      Image(0, << 64, 1, 16, 0, 0, 154, 0 >>)
    }

\* the ids irq() is called with
IrqIds == {1, 2, 9}

\* the ids nmi() is called with
NmiIds == {W32(2)}

\* last after new(): no call yet.  call is the public method called last, id its
\* argument, pre the Cpu it was called on, path what step() did, fault the error its
\* instruction raised, owed the fault of the latest step() before that call
NoCall == [call |-> "new", id |-> 0, pre |-> << >>, path |-> "", fault |-> Ok, owed |-> Ok]

\* the fault of the latest step() so far
Owed == IF last.call = "step" THEN last.fault ELSE last.owed

Init ==
    /\ xs = [i \in 0..15 |-> W32(0)]
    /\ fs = [i \in 0..15 |-> W32(0)]
    /\ flags = W32(0)
    /\ interrupt_mask = 255
    /\ memmap = W32(0)
    /\ system_sp = W32(0)
    /\ interrupt_queue = << >>
    /\ memory \in Programs
    /\ overflow_checks \in BOOLEAN
    /\ nan_negative \in BOOLEAN
    /\ nan_second \in BOOLEAN
    /\ panicked = FALSE
    /\ last = NoCall
    /\ arrived = << >>
    /\ serviced = << >>
    /\ steps = 0
    /\ irqs = 0

\* the Cpu's fields become those of s
Becomes(s) ==
    /\ xs' = s.xs
    /\ fs' = s.fs
    /\ flags' = s.flags
    /\ interrupt_mask' = s.interrupt_mask
    /\ memmap' = s.memmap
    /\ system_sp' = s.system_sp
    /\ interrupt_queue' = s.interrupt_queue
    /\ memory' = s.memory

\* step(), while fewer than bound calls of it have been made
StepWithin(bound) ==
    /\ ~panicked
    /\ steps < bound
    /\ With(step(Self), LAMBDA r :
           /\ Becomes(r.self)
           /\ panicked' = (r.err = Panic)
           /\ last' = [call |-> "step", id |-> 0, pre |-> Self, path |-> r.path,
                       fault |-> r.fault, owed |-> Owed]
           /\ serviced' = IF r.path = "interrupt"
                          THEN Append(serviced, Head(interrupt_queue)) ELSE serviced)
    /\ steps' = steps + 1
    /\ UNCHANGED << overflow_checks, nan_negative, nan_second, arrived, irqs >>

Step == StepWithin(MaxSteps)

Irq(id) ==
    /\ ~panicked
    /\ irqs < MaxIrqs
    /\ With(irq(Self, id), LAMBDA r :
           /\ Becomes(r.self)
           /\ panicked' = (r.err = Panic)
           /\ last' = [call |-> "irq", id |-> id, pre |-> Self, path |-> "", fault |-> Ok,
                       owed |-> Owed]
           /\ arrived' = IF Len(r.self.interrupt_queue) > Len(interrupt_queue)
                         THEN Append(arrived, W32(id)) ELSE arrived)
    /\ irqs' = irqs + 1
    /\ UNCHANGED << overflow_checks, nan_negative, nan_second, serviced, steps >>

Nmi(id) ==
    /\ ~panicked
    /\ last.call # "nmi"
    /\ Becomes(nmi(Self, id))
    /\ last' = [call |-> "nmi", id |-> id, pre |-> Self, path |-> "", fault |-> Ok,
                owed |-> Owed]
    /\ UNCHANGED << overflow_checks, nan_negative, nan_second, panicked, arrived, serviced, steps, irqs >>

Next ==
    \/ Step
    \/ \E id \in IrqIds : Irq(id)
    \/ \E id \in NmiIds : Nmi(id)

Spec == Init /\ [][Next]_vars

\* ------------------------------------------------------ arithmetic programs
\* the values x0 and x1 hold when an arithmetic program starts
AluWords ==
    { W32(0), W32(1), W32(2), W32(32), << 255, 255, 255, 127 >>, << 0, 0, 0, 128 >>,
      << 255, 255, 255, 255 >> }

\* the flags an arithmetic program starts with, as earlier instructions leave them:
\* none; CARRY; INTERRUPT_ENABLE with the ZERO and NEGATIVE of a float -0.0 over a
\* stale OVERFLOW and PARITY (440); those and CARRY (504); the INFINITE and NEGATIVE
\* of a float -inf over a stale OVERFLOW, CARRY and PARITY (1504); INTERRUPT_ENABLE
\* and NAN (520)
AluFlags == {W32(0), W32(64), W32(440), W32(504), W32(1504), W32(520)}

\* the arithmetic programs, each on x0 and x1 and loaded at address 0
AluPrograms ==
    { \* iadd; set CARRY; isub
      Image(0, << 128, 1, 17, 129, 1 >>),
      \* bsl
      Image(0, << 137, 1 >>),
      \* bsr
      Image(0, << 138, 1 >>),
      \* idiv
      Image(0, << 131, 1 >>),
      \* imod
      Image(0, << 132, 1 >>),
      \* isub of x1 from itself
      Image(0, << 129, 17 >>)
    }

\* a Cpu whose x0, x1 and flags earlier instructions have set
InitAlu ==
    /\ xs \in {[i \in 0..15 |-> IF i = 0 THEN a ELSE IF i = 1 THEN b ELSE W32(0)] :
                  a \in AluWords, b \in AluWords}
    /\ fs = [i \in 0..15 |-> W32(0)]
    /\ flags \in AluFlags
    /\ interrupt_mask = 255
    /\ memmap = W32(0)
    /\ system_sp = W32(0)
    /\ interrupt_queue = << >>
    /\ memory \in AluPrograms
    /\ overflow_checks \in BOOLEAN
    /\ nan_negative \in BOOLEAN
    /\ nan_second \in BOOLEAN
    /\ panicked = FALSE
    /\ last = NoCall
    /\ arrived = << >>
    /\ serviced = << >>
    /\ steps = 0
    /\ irqs = 0

AluStep == StepWithin(MaxAluSteps)

SpecAlu == InitAlu /\ [][AluStep]_vars

\* ------------------------------------------- load, store and branch programs
\* the start of the programs that run under the MMU: set MEMMAP_ENABLE (the top table
\* entry at 0 is then 0x00000013, the leaf of page 0 at 0x13 is 0xf0000000: present,
\* READ, WRITE, EXEC, base 0; the leaf of page 1, read at 0x14, is not present);
\* branch on ZERO (not taken); x0 = 5
Paged(bytes) ==
    Image(0, << 19, 0, 0, 0, 0, 0, 64, 5, 0, 0, 0 >> \o bytes) @@ Image(19, << 0, 0, 0, 240 >>)

\* the load opcodes with an immediate: load-literal and load-from-memory, int and
\* float, into register 0, and into x13
ImmediateLoads == {64, 80, 96, 112, 77, 109}

IsaPrograms ==
    \* under the MMU: x13 = 0xfffc; at 0xfffc a load whose fourth immediate byte lies
    \* in page 1
    { Paged(<< 77, 252, 255, 0, 0 >>) @@ Image(65532, << op, 1, 2, 3 >>) :
          op \in ImmediateLoads }
    \* under the MMU: load from 0xfffe, of which the third byte lies in page 1
    \cup { Paged(<< op, 254, 255, 0, 0 >>) : op \in {96, 112, 109} }
    \* under the MMU: x1 = 0xfffe; indirect load of register 0 from [x1], int and float
    \cup { Paged(<< 65, 254, 255, 0, 0, op, 1 >>) : op \in {148, 149} }
    \* x0 = 0x0803; set USER_RING; each privileged flag operation; flags = x0
    \* and memmap = x0
    \cup { Image(0, << 64, 3, 8, 0, 0, 23, op, 154, 0, 154, 1 >>) : op \in {18, 19, 20, 21, 23} }
    \* x15 = 0x1234; set USER_RING
    \cup { Image(0, << 79, 52, 18, 0, 0, 23 >>) }
    \* x0 = 0xa0b0c0d0; store-int x0 at 0xff00; load x1 from 0xff00; x2 = 0xfe00;
    \* indirect store-int x0 at [x2]; indirect load x3 from [x2]
    \cup { Image(0, << 64, 208, 192, 176, 160, 192, 0, 255, 0, 0, 97, 0, 255, 0, 0,
                      66, 0, 254, 0, 0, 150, 2, 148, 50 >>) }
    \* the same with store-short at 0xff00, store-byte at 0xff10, x2 = 0xfe00, indirect
    \* store-short and store-byte at [x2], over memory that holds other bytes there
    \cup { Image(0, << 64, 208, 192, 176, 160, 208, 0, 255, 0, 0, 224, 16, 255, 0, 0,
                      66, 0, 254, 0, 0, st, 2 >>)
           @@ Image(65024, << 1, 2, 3, 4 >>) @@ Image(65280, << 5, 6, 7, 8 >>)
           @@ Image(65296, << 9, 10 >>) : st \in {151, 152} }
    \* x0 = 0xa0b0c0d0; store-int x0 at 0x00fffffe, the last two bytes of the bus;
    \* load x1 from there
    \cup { Image(0, << 64, 208, 192, 176, 160, 192, 254, 255, 255, 0, 97, 254, 255, 255, 0 >>) }
    \* under the MMU: store-int x0 at 0xff00; load x1 from 0xff00
    \cup { Paged(<< 192, 0, 255, 0, 0, 97, 0, 255, 0, 0 >>) }
    \* the undefined opcodes 0x16, 0x1a, 0x3f, 0x9c, 0xbf, 0x9f in system ring
    \cup { Image(0, << 22, 26, 63, 156, 1, 191, 255, 159, 0 >>) }
    \* x0 = 0x0848; flags = x0 (USER_RING, CARRY, INTERRUPT_ENABLE); the undefined
    \* opcodes 0x16, 0x3a, 0xac, 0xbc in user ring
    \cup { Image(0, << 64, 72, 8, 0, 0, 154, 0, 22, 58, 172, 18, 188, 33 >>) }
    \* set CARRY; branch on CARRY to 0x20 (taken); at 0x20: branch on no CARRY (not
    \* taken); branch on no ZERO to 0x30 (taken); at 0x30: branch on ZERO (not taken);
    \* branch on NEGATIVE (not taken)
    \cup { Image(0, << 17, 2, 32, 0, 0, 0 >>) @@ Image(32, << 10, 64, 0, 0, 0, 8, 48, 0, 0, 0 >>)
           @@ Image(48, << 0, 1, 2, 3, 4, 3, 9, 9, 9, 9 >>) }
    \* x0 = 0x80000001; branch on NEGATIVE to 0x10 (taken); at 0x10: branch on no
    \* PARITY (not taken); branch on PARITY to 0x20 (taken); at 0x20: branch on no
    \* NEGATIVE (not taken); branch on no OVERFLOW to 0x30 (taken)
    \cup { Image(0, << 64, 1, 0, 0, 128, 3, 16, 0, 0, 0 >>)
           @@ Image(16, << 12, 64, 0, 0, 0, 4, 32, 0, 0, 0 >>)
           @@ Image(32, << 11, 64, 0, 0, 0, 9, 48, 0, 0, 0 >>) }

\* the Cpu new() returns on a memory that holds one of the programs
InitIsa ==
    /\ xs = [i \in 0..15 |-> W32(0)]
    /\ fs = [i \in 0..15 |-> W32(0)]
    /\ flags = W32(0)
    /\ interrupt_mask = 255
    /\ memmap = W32(0)
    /\ system_sp = W32(0)
    /\ interrupt_queue = << >>
    /\ memory \in IsaPrograms
    /\ overflow_checks \in BOOLEAN
    /\ nan_negative \in BOOLEAN
    /\ nan_second \in BOOLEAN
    /\ panicked = FALSE
    /\ last = NoCall
    /\ arrived = << >>
    /\ serviced = << >>
    /\ steps = 0
    /\ irqs = 0

IsaStep == StepWithin(MaxIsaSteps)

SpecIsa == InitIsa /\ [][IsaStep]_vars

\* ------------------------------------------------------------- properties
\* the opcode byte step() fetched in its last call, and the Cpu after that fetch
Fetched == exec(last.pre)

\* the operand byte of a two-register instruction step() fetched in its last call
Operand == exec(Fetched.self)

\* the last call was a step() that decoded an instruction with this opcode byte
Decoded(opcode) ==
    /\ last.call = "step"
    /\ last.path = "instruction"
    /\ Fetched.err = Ok
    /\ Fetched.val = opcode

\* the id nmi() is given for a fault, tagged with the high bit
Tagged(e) == OrW(nmi_id(e), << 0, 0, 0, 128 >>)

\* flag words with USER_RING set, besides the one the Cpu holds
UserFlagWords ==
    { << 0, 8, 0, 0 >>, << 8, 8, 0, 0 >>, << 0, 24, 0, 0 >>, << 8, 24, 0, 0 >>,
      << 1, 8, 0, 0 >>, << 255, 255, 255, 255 >> }

\* C1: a step() on a state where INTERRUPT_ENABLE (flag bit 3) is set and the queue
\* is non-empty removes exactly the head of the queue, writes it to x12, and neither
\* fetches nor executes an instruction
C1_EnabledStepServicesHead ==
    (/\ last.call = "step"
     /\ Bit(last.pre.flags, F_INTERRUPT_ENABLE) = 1
     /\ last.pre.interrupt_queue # << >>)
    => /\ last.path = "interrupt"
       /\ interrupt_queue = Tail(last.pre.interrupt_queue)
       /\ xs[R_INT] = Head(last.pre.interrupt_queue)
       /\ xs[R_PC] = last.pre.xs[R_PC]

\* C2: a step() on a state where INTERRUPT_ENABLE (flag bit 3) is clear leaves the
\* interrupt queue as it was and executes an instruction, whatever the other flag
\* bits are
C2_DisabledStepKeepsQueue ==
    (/\ last.call = "step"
     /\ Bit(last.pre.flags, F_INTERRUPT_ENABLE) = 0)
    => /\ last.path = "instruction"
       /\ interrupt_queue = last.pre.interrupt_queue

\* C3: when the instruction of a step() faults, the matching NMI id (0, 1 or 2, tagged
\* with the high bit) is pending in the queue or already dispatched to x12 after that
\* step(), and the next step() services it whatever interrupt_mask and
\* INTERRUPT_ENABLE are
C3_FaultRaisesNmi ==
    /\ (last.call = "step" /\ last.fault # Ok)
       => \/ \E i \in 1..Len(interrupt_queue) : interrupt_queue[i] = Tagged(last.fault)
          \/ xs[R_INT] = Tagged(last.fault)
    /\ (last.call = "step" /\ last.owed # Ok)
       => /\ last.path = "interrupt"
          /\ xs[R_INT] = Tagged(last.owed)

\* C4: a step() that executes an instruction on a state with USER_RING set leaves
\* USER_RING set, whatever the instruction, its operand bytes and the registers are
C4_UserRingStaysSet ==
    (/\ last.call = "step"
     /\ last.path = "instruction"
     /\ get_flag(last.pre, F_USER_RING))
    => get_flag(Self, F_USER_RING)

\* C5: a step() that services an interrupt on a state with USER_RING set leaves
\* USER_RING clear
C5_InterruptClearsUserRing ==
    (/\ last.call = "step"
     /\ last.path = "interrupt"
     /\ get_flag(last.pre, F_USER_RING))
    => ~get_flag(Self, F_USER_RING)

\* C6: with USER_RING set, set_memmap_enable(v), set_interrupt_enable(v) and
\* set_user_ring(v) return UnprivilegedOpcode and leave the whole flags word as it
\* was, for v true and false; a step() that decodes one of them (0x12..0x15, 0x17)
\* in the user ring faults with UnprivilegedOpcode and leaves flags unchanged
C6_UserRingSettersFault ==
    /\ \A f \in UserFlagWords \cup {w \in {flags} : Bit(w, F_USER_RING) = 1} :
       \A v \in BOOLEAN :
          /\ set_memmap_enable([Self EXCEPT !.flags = f], v)
                = Res([Self EXCEPT !.flags = f], UnprivilegedOpcode, 0)
          /\ set_interrupt_enable([Self EXCEPT !.flags = f], v)
                = Res([Self EXCEPT !.flags = f], UnprivilegedOpcode, 0)
          /\ set_user_ring([Self EXCEPT !.flags = f], v)
                = Res([Self EXCEPT !.flags = f], UnprivilegedOpcode, 0)
    /\ \A opcode \in {18, 19, 20, 21, 23} :
          (Decoded(opcode) /\ get_flag(last.pre, F_USER_RING))
          => last.fault = UnprivilegedOpcode /\ flags = last.pre.flags

\* a step() has decoded set_memmap_enable(true) in the user ring: it faulted and the
\* flags are those from before
C6_UserRingSetterFaulted ==
    /\ Decoded(19)
    /\ get_flag(last.pre, F_USER_RING)
    /\ last.fault = UnprivilegedOpcode
    /\ flags = last.pre.flags

\* C7: with USER_RING set, the privileged-move instruction (0x9a) faults with
\* UnprivilegedOpcode for every selector and source register, and leaves flags,
\* memmap and interrupt_mask unchanged
C7_UserPrivilegedMoveFaults ==
    (/\ Decoded(154)
     /\ Operand.err = Ok
     /\ get_flag(last.pre, F_USER_RING))
    => /\ last.fault = UnprivilegedOpcode
       /\ flags = last.pre.flags
       /\ memmap = last.pre.memmap
       /\ interrupt_mask = last.pre.interrupt_mask

\* C8: with USER_RING clear, the privileged-move instruction (0x9a) does not fault
\* for the selectors 0, 1 and 2 and writes the source register to flags, to memmap
\* and (its low 8 bits) to interrupt_mask respectively
C8_SystemPrivilegedMoveWrites ==
    (/\ Decoded(154)
     /\ Operand.err = Ok
     /\ Operand.val % 16 \in {0, 1, 2}
     /\ ~get_flag(last.pre, F_USER_RING))
    => /\ last.fault = Ok
       /\ Operand.val % 16 = 0 => flags = last.pre.xs[Operand.val \div 16]
       /\ Operand.val % 16 = 1 => memmap = last.pre.xs[Operand.val \div 16]
       /\ Operand.val % 16 = 2 => interrupt_mask = last.pre.xs[Operand.val \div 16][1]

\* C9: irq(i) for an id whose bit of interrupt_mask is zero, which includes every
\* i >= 8 since the mask has 8 bits, returns and leaves the queue and every other
\* field of the Cpu unchanged
C9_MaskedIrqNoEffect ==
    (/\ last.call = "irq"
     /\ (last.id >= 8 \/ BitOf(last.pre.interrupt_mask, last.id) = 0))
    => /\ ~panicked
       /\ Self = last.pre

\* C10: irq(id) with bit id of interrupt_mask set appends id at the tail of the queue
\* and changes nothing else; the ids step() has serviced, each written to x12, are
\* a prefix of the ids irq() has queued, in arrival order
C10_IrqFifo ==
    /\ (last.call = "irq" /\ last.id < 8 /\ BitOf(last.pre.interrupt_mask, last.id) = 1)
       => /\ ~panicked
          /\ Self = [last.pre EXCEPT !.interrupt_queue = Append(@, W32(last.id))]
    /\ Len(serviced) <= Len(arrived)
    /\ serviced = SubSeq(arrived, 1, Len(serviced))
    /\ (last.call = "step" /\ last.path = "interrupt")
       => xs[R_INT] = serviced[Len(serviced)]

\* two different ids were queued and step() has just serviced the second of them
C10_TwoServicedInOrder ==
    /\ last.call = "step"
    /\ last.path = "interrupt"
    /\ Len(serviced) = 2
    /\ serviced[1] # serviced[2]
    /\ arrived = serviced

\* the translation of address A for the permissions P as the specification gives it:
\* T2 the word at memmap + (A >> 24), L the word at T2 + ((A >> 16) & 0xff), the
\* permissions and the base taken from L alone
reference_translation(self, A, P) ==
    IF Bit(self.flags, F_MEMMAP_ENABLE) = 0 THEN [err |-> Ok, val |-> A]
    ELSE With(read_table_word(self.memory,
                              AddC(self.memmap, << A[4], 0, 0, 0 >>, 0).w).val, LAMBDA T2 :
         IF T2 = W32(0) THEN [err |-> UsedFreePage, val |-> A]
         ELSE With(read_table_word(self.memory,
                                   AddC(T2, << A[3], 0, 0, 0 >>, 0).w).val, LAMBDA L :
              IF AndB(L[4] \div 16, 8) = 0 THEN [err |-> UsedFreePage, val |-> A]
              ELSE IF AndB(L[4] \div 16, P) # P
                   THEN [err |-> InvalidPermissions(L[4] \div 16, P), val |-> A]
              ELSE [err |-> Ok,
                    val |-> AddC(<< L[1], L[2], L[3], L[4] % 16 >>,
                                 << A[1], A[2], 0, 0 >>, 0).w]))

\* the virtual addresses translated besides the program counter
SampleAddrs == {W32(0), W32(1), << 0, 0, 1, 0 >>, << 255, 255, 0, 0 >>}

\* C11: check_memory(A, P) equals the reference translation for every address A and
\* permission P: the identity when MEMMAP_ENABLE is clear; otherwise UsedFreePage if T2
\* is 0 or PRESENT is clear in L, InvalidPermissions(perms, P) if perms & P # P, else
\* base + (A & 0xffff), with perms and base taken from L alone
C11_TranslationMatchesReference ==
    \A A \in SampleAddrs \cup {xs[R_PC]} : \A P \in {READ, WRITE, EXEC} :
        check_memory(Self, A, P) = reference_translation(Self, A, P)

\* the leaf word stored for the virtual address A, where check_memory reads it, and
\* whether the top table has an entry for A at all
stored_leaf(self, A) ==
    With(read_table_word(self.memory, AddC(self.memmap, << A[4], 0, 0, 0 >>, 0).w).val,
         LAMBDA T2 :
             [mapped |-> T2 # W32(0),
              word |-> read_table_word(self.memory,
                                       AddC(T2, << A[3], 0, 0, 0 >>, 0).w).val])

\* the leaf stored for A has PRESENT and the permission P in its nibble
Grants(self, A, P) ==
    With(stored_leaf(self, A), LAMBDA l :
        /\ l.mapped
        /\ AndB(l.word[4] \div 16, 8) # 0
        /\ AndB(l.word[4] \div 16, P) = P)

\* r is a fault that left the Cpu as it was
FaultedUnchanged(self, r) ==
    /\ r.err.kind \in {"UsedFreePage", "InvalidPermissions"}
    /\ r.self = self

\* C12: with MEMMAP_ENABLE set, a fetch, a data read or a data write of an address
\* whose stored leaf nibble lacks PRESENT or the requested bit (EXEC, READ, WRITE)
\* faults and leaves memory, and for a fetch the PC, unchanged; a step() whose
\* opcode fetch is such an access faults and leaves memory and PC as they were
C12_UngrantedAccessFaults ==
    /\ get_flag(Self, F_MEMMAP_ENABLE)
       => /\ ~Grants(Self, xs[R_PC], EXEC) => FaultedUnchanged(Self, exec(Self))
          /\ \A A \in SampleAddrs \cup {xs[R_PC]} :
                /\ ~Grants(Self, A, READ) => FaultedUnchanged(Self, read(Self, A))
                /\ ~Grants(Self, A, WRITE) => FaultedUnchanged(Self, write(Self, A, 1))
    /\ (/\ last.call = "step"
        /\ last.path = "instruction"
        /\ get_flag(last.pre, F_MEMMAP_ENABLE)
        /\ ~Grants(last.pre, last.pre.xs[R_PC], EXEC))
       => /\ last.fault.kind \in {"UsedFreePage", "InvalidPermissions"}
          /\ memory = last.pre.memory
          /\ xs[R_PC] = last.pre.xs[R_PC]

\* the addresses check_memory reads its two table words from for the virtual address
\* A, and the level-2 base T2 it finds
table_reads(self, A) ==
    With(AddC(self.memmap, << A[4], 0, 0, 0 >>, 0).w, LAMBDA top :
    With(read_table_word(self.memory, top).val, LAMBDA T2 :
        [top |-> top, T2 |-> T2, leaf |-> AddC(T2, << A[3], 0, 0, 0 >>, 0).w]))

\* C13: translation tables have 4-byte entries: for the virtual address A with
\* i = A >> 24 and j = (A >> 16) & 0xff the level-2 base is read from the four bytes
\* at memmap + 4*i and the leaf word from the four bytes at T2 + 4*j
C13_TableEntriesFourBytes ==
    get_flag(Self, F_MEMMAP_ENABLE)
    => \A A \in SampleAddrs \cup {xs[R_PC]} :
          /\ table_reads(Self, A).top = AddC(memmap, W32(4 * A[4]), 0).w
          /\ table_reads(Self, A).T2 # W32(0)
             => table_reads(Self, A).leaf
                   = AddC(table_reads(Self, A).T2, W32(4 * A[3]), 0).w

\* the target and the return address (the address after the immediate) of the call
\* instruction the last step() decoded
CallTarget == exec_u32(Fetched.self).val
ReturnPC == exec_u32(Fetched.self).self.xs[R_PC]

\* the last call was a step() that executed a call instruction to its end
Called ==
    /\ Decoded(24)
    /\ last.fault = Ok
    /\ ~panicked

\* the bus address the virtual address A had for a write before the last call
Phys(A) == check_memory(last.pre, A, WRITE).val

\* the eight bytes S - 7 .. S exist: none below address 0, each writable and inside
\* the bus, no two at the same bus address
FrameBacked(S) ==
    /\ ~LtW(S, W32(7))
    /\ \A k \in 0..7 :
          /\ check_memory(last.pre, SubB(S, W32(k)).w, WRITE).err = Ok
          /\ LtW(Phys(SubB(S, W32(k)).w), W32(SIMPLE_ADDRESS_SIZE))
    /\ Cardinality({Phys(SubB(S, W32(k)).w) : k \in 0..7}) = 8

\* the frame a call from the stack pointer S leaves: SP = S - 8, BP = SP, PC the
\* target, the return address at SP+1..SP+4 and the caller's BP at SP+5..SP+8, low
\* byte first, every other byte of memory as before
CallFrame(S) ==
    /\ xs[R_SP] = SubB(S, W32(8)).w
    /\ xs[R_BASE] = xs[R_SP]
    /\ xs[R_PC] = CallTarget
    /\ \A k \in 1..4 :
          /\ Address_read(memory, Phys(AddC(xs[R_SP], W32(k), 0).w)) = ReturnPC[k]
          /\ Address_read(memory, Phys(AddC(xs[R_SP], W32(4 + k), 0).w))
                = last.pre.xs[R_BASE][k]
    /\ \A a \in (DOMAIN memory \cup DOMAIN last.pre.memory)
                \ {AddrIndex(Phys(SubB(S, W32(k)).w)) : k \in 0..7} :
          Address_read(memory, W32(a)) = Address_read(last.pre.memory, W32(a))

\* C15: after a successful call from the stack pointer S, whose frame bytes S-7..S
\* exist in memory: SP = S - 8, BP = SP, PC = target, memory at SP+1..SP+4 holds the
\* return address and at SP+5..SP+8 the caller's BP, low byte first, and no other
\* memory byte is changed
C15_CallFrameInMemory ==
    (Called /\ FrameBacked(last.pre.xs[R_SP])) => CallFrame(last.pre.xs[R_SP])

\* C15 as stated, for every stack pointer S: after a successful call the frame is in
\* memory at SP+1..SP+8
C15_CallFrameAnyStack ==
    Called => CallFrame(last.pre.xs[R_SP])

\* a call from a stack inside memory has returned Ok, with a caller's BP of four
\* different non-zero bytes
C15_CalledWithFrame ==
    /\ Called
    /\ FrameBacked(last.pre.xs[R_SP])
    /\ last.pre.xs[R_BASE] = << 1, 2, 3, 4 >>

\* the values the callee may leave in the stack pointer before it returns
SampleSPs == {W32(0), W32(1000), << 255, 255, 255, 255 >>}

\* the MMU lets the eight frame bytes S - 7 .. S be written and read
FramePermitted(S) ==
    \A k \in 0..7 :
        /\ check_memory(last.pre, SubB(S, W32(k)).w, WRITE).err = Ok
        /\ check_memory(last.pre, SubB(S, W32(k)).w, READ).err = Ok

\* a ret on the Cpu as the call left it, but for the stack pointer sp, ends with PC
\* after the call's immediate and with the BP and SP from before the call
RoundTrip(sp) ==
    With(ret([Self EXCEPT !.xs[R_SP] = sp]), LAMBDA r :
        /\ r.err = Ok
        /\ r.self.xs[R_PC] = AddC(last.pre.xs[R_PC], W32(1 + 4), 0).w
        /\ r.self.xs[R_BASE] = last.pre.xs[R_BASE]
        /\ r.self.xs[R_SP] = last.pre.xs[R_SP])

\* the word read(A+1)..read(A+4) gives on the Cpu before the last call, low byte first
WordAbove(A) == read_u32(last.pre, AddC(A, W32(1), 0).w).val

\* C14: a call at call_site followed by ret, with BP and the eight frame bytes
\* untouched in between and SP moved arbitrarily, where the frame bytes exist in
\* memory and may be read and written, leaves PC = call_site + 1 + 4 and BP and SP
\* at their values from before the call; the ret of a step() sets PC and BP from the
\* two words above BP and SP to the address of the last byte it read
C14_CallRetRoundTrip ==
    /\ (Called /\ FramePermitted(last.pre.xs[R_SP]) /\ FrameBacked(last.pre.xs[R_SP]))
       => \A sp \in SampleSPs \cup {xs[R_SP]} : RoundTrip(sp)
    /\ (Decoded(25) /\ last.fault = Ok /\ ~panicked)
       => /\ xs[R_PC] = WordAbove(last.pre.xs[R_BASE])
          /\ xs[R_BASE] = WordAbove(AddC(last.pre.xs[R_BASE], W32(4), 0).w)
          /\ xs[R_SP] = AddC(last.pre.xs[R_BASE], W32(8), 0).w

\* C14 as stated, for any SP: the round trip holds whenever the accesses are permitted
C14_RoundTripAnyStack ==
    (Called /\ FramePermitted(last.pre.xs[R_SP]))
    => \A sp \in SampleSPs \cup {xs[R_SP]} : RoundTrip(sp)

\* step() has executed the call at address 10 and then the ret: PC is 15 and BP and
\* SP are those from before the call
C14_ReturnedToCaller ==
    /\ Decoded(25)
    /\ last.fault = Ok
    /\ xs[R_PC] = W32(15)
    /\ xs[R_BASE] = << 1, 2, 3, 4 >>
    /\ xs[R_SP] = W32(64)

\* the two registers of the two-register instruction the last step() decoded
Dst == Operand.val \div 16
Src == Operand.val % 16

\* the last call was a step() that executed the two-register instruction opcode to
\* its end
Executed(opcode) ==
    /\ Decoded(opcode)
    /\ Operand.err = Ok
    /\ last.fault = Ok
    /\ ~panicked

\* 1 for TRUE, 0 for FALSE
B2N(b) == IF b THEN 1 ELSE 0

\* the flags are those of before the last call but for the five iadd derives, which
\* are those of the 64-bit sum of a, b and the carry: low 32 bits sum.w, bit 32 sum.c
FlagsOfSum(a, b, sum) ==
    /\ Bit(flags, F_ZERO) = B2N(sum.w = W32(0))
    /\ Bit(flags, F_NEGATIVE) = Bit(sum.w, 31)
    /\ Bit(flags, F_CARRY) = sum.c
    /\ Bit(flags, F_PARITY) = Bit(sum.w, 0)
    /\ Bit(flags, F_OVERFLOW) = B2N(Bit(a, 31) = Bit(b, 31) /\ Bit(a, 31) # Bit(sum.w, 31))
    /\ \A k \in (0..31) \ {F_ZERO, F_NEGATIVE, F_CARRY, F_PARITY, F_OVERFLOW} :
          Bit(flags, k) = Bit(last.pre.flags, k)

\* C16: iadd leaves x0 = (x0 + x1 + CARRY) mod 2^32 with ZERO = (result = 0),
\* NEGATIVE = bit 31 of the result, CARRY = bit 32 of the 64-bit sum, PARITY = bit 0
\* of the result, OVERFLOW = (operands have equal sign and the result's differs);
\* the five flags hold exactly these values and every other flag bit is unchanged
C16_IaddResultAndFlags ==
    Executed(128)
    => With(AddC(Operand.self.xs[Dst], Operand.self.xs[Src], Bit(last.pre.flags, F_CARRY)),
            LAMBDA sum :
                /\ xs[Dst] = sum.w
                /\ FlagsOfSum(Operand.self.xs[Dst], Operand.self.xs[Src], sum)
                /\ \A i \in (0..15) \ {Dst} : xs[i] = Operand.self.xs[i])

\* iadd has added 0x7fffffff, 1 and a set CARRY with all five flags stale: the sum
\* 0x80000001 overflows into the sign; of the five only OVERFLOW, PARITY and NEGATIVE
\* are set, and INTERRUPT_ENABLE is as it was
C16_IaddOverflowed ==
    /\ Executed(128)
    /\ last.pre.xs[Dst] = << 255, 255, 255, 127 >>
    /\ last.pre.xs[Src] = W32(1)
    /\ last.pre.flags = W32(504)
    /\ xs[Dst] = << 1, 0, 0, 128 >>
    /\ flags = W32(424)

\* C17: for a in a destination register and b in a different operand register, iadd
\* executed with CARRY = 0 followed by isub executed with CARRY = 1 leaves the
\* destination equal to a and the operand equal to b; the isub of a step() leaves
\* destination + !operand + CARRY in the destination and the operand as it was
C17_IaddIsubRoundTrip ==
    /\ (Executed(128) /\ Dst # Src /\ Bit(last.pre.flags, F_CARRY) = 0)
       => With(isub(set_carry(Self, TRUE), Dst, Src), LAMBDA r :
              /\ r.xs[Dst] = Operand.self.xs[Dst]
              /\ r.xs[Src] = Operand.self.xs[Src])
    /\ (Executed(129) /\ Dst # Src)
       => /\ xs[Dst] = AddC(Operand.self.xs[Dst], NotW(Operand.self.xs[Src]),
                            Bit(last.pre.flags, F_CARRY)).w
          /\ xs[Src] = Operand.self.xs[Src]

\* iadd, set CARRY and isub have run on x0 = 0xffffffff and x1 = 2, CARRY clear at
\* the start: the sum wrapped to 1 and the difference is 0xffffffff again
C17_SubtractedBack ==
    /\ Executed(129)
    /\ steps = 3
    /\ Bit(last.pre.flags, F_CARRY) = 1
    /\ last.pre.xs[0] = W32(1)
    /\ xs[1] = W32(2)
    /\ xs[0] = << 255, 255, 255, 255 >>

\* C18: after bsl or bsr with a shift-amount register holding 32 or more the
\* destination register is zero, for every destination value and prior flags
C18_WideShiftZeroes ==
    ((Executed(137) \/ Executed(138)) /\ ~LtW(Operand.self.xs[Src], W32(32)))
    => xs[Dst] = W32(0)

\* C19: bsl and bsr re-derive CARRY only when the shift amount is 1 (bsl: bit 31 of
\* the destination, shifted out; bsr: bit 0 of the destination); for every other
\* shift amount CARRY after the operation is CARRY before it
C19_ShiftCarry ==
    /\ (Executed(137) /\ Operand.self.xs[Src] = W32(1))
       => Bit(flags, F_CARRY) = Bit(Operand.self.xs[Dst], 31)
    /\ (Executed(138) /\ Operand.self.xs[Src] = W32(1))
       => Bit(flags, F_CARRY) = Bit(Operand.self.xs[Dst], 0)
    /\ ((Executed(137) \/ Executed(138)) /\ Operand.self.xs[Src] # W32(1))
       => Bit(flags, F_CARRY) = Bit(last.pre.flags, F_CARRY)

\* C20: idiv or imod with a divisor register holding 0 raises no fault and does not
\* abort: step() returns normally, no NMI is generated, the queue is unchanged and
\* the machine can execute the next instruction
C20_DivideByZeroHarmless ==
    ((Decoded(131) \/ Decoded(132)) /\ Operand.err = Ok /\ Operand.self.xs[Src] = W32(0))
    => /\ ~panicked
       /\ last.fault = Ok
       /\ interrupt_queue = last.pre.interrupt_queue

\* the last call was a step() whose instruction, of one of these opcodes, raised a
\* fault after its opcode was fetched
Faulted(opcodes) ==
    /\ last.call = "step"
    /\ last.path = "instruction"
    /\ ~panicked
    /\ last.fault # Ok
    /\ Fetched.err = Ok
    /\ Fetched.val \in opcodes

\* the opcodes of the loads: 0b01xxyyyy (load-literal and load-from-memory, int and
\* float) and the indirect loads 0x94, 0x95
LoadOpcodes == 64..127 \cup {148, 149}

\* the opcodes of the privileged operations: the flag setters 0x12..0x15, 0x17 and the
\* move to a control register 0x9a
PrivilegedOpcodes == {18, 19, 20, 21, 23, 154}

\* the destination register of the load the last step() decoded is as before the call
DestinationKept ==
    CASE Fetched.val \in {148, 149} /\ Operand.err # Ok -> TRUE
      [] Fetched.val = 148 /\ Operand.err = Ok -> xs[Dst] = last.pre.xs[Dst]
      [] Fetched.val = 149 /\ Operand.err = Ok -> fs[Dst] = last.pre.fs[Dst]
      [] Fetched.val \in 64..127 /\ (Fetched.val \div 16) % 2 = 0
           -> xs[Fetched.val % 16] = last.pre.xs[Fetched.val % 16]
      [] Fetched.val \in 64..127 /\ (Fetched.val \div 16) % 2 = 1
           -> fs[Fetched.val % 16] = last.pre.fs[Fetched.val % 16]

\* C21 as stated: a load instruction that faults on an immediate fetch or a data read
\* leaves its destination register and the whole flags word at their pre-instruction
\* values; a faulting privileged flag operation changes no register or flag
C21_FaultedLoadKeepsDestination ==
    /\ Faulted(LoadOpcodes) => (flags = last.pre.flags /\ DestinationKept)
    /\ Faulted(PrivilegedOpcodes)
       => (flags = last.pre.flags /\ xs = last.pre.xs /\ fs = last.pre.fs)

\* C21: a load instruction that faults on an immediate fetch or a data read, and a
\* faulting privileged operation, leave the flags word, the float registers, the
\* control registers and every integer register but x13 at their pre-instruction
\* values; x13, the PC, has advanced past the bytes fetched before the fault
C21_FaultedLoadKeepsState ==
    Faulted(LoadOpcodes \cup PrivilegedOpcodes)
    => /\ flags = last.pre.flags
       /\ fs = last.pre.fs
       /\ \A i \in (0..15) \ {R_PC} : xs[i] = last.pre.xs[i]
       /\ memmap = last.pre.memmap
       /\ interrupt_mask = last.pre.interrupt_mask
       /\ system_sp = last.pre.system_sp
       /\ memory = last.pre.memory
       /\ \E n \in 1..5 : xs[R_PC] = AddC(last.pre.xs[R_PC], W32(n), 0).w

\* the load of x0 from 0xfffe has faulted on its third data byte, in the page that is
\* not present: x0 is still 5, PARITY is still set, PC is past the immediate
C21_LoadFaultedOnData ==
    /\ Faulted({96})
    /\ last.fault = UsedFreePage
    /\ last.pre.xs[R_PC] = W32(11)
    /\ xs[R_PC] = W32(16)
    /\ xs[0] = W32(5)
    /\ Bit(flags, F_PARITY) = 1

\* the last call was a step() that serviced an interrupt
Serviced == last.call = "step" /\ last.path = "interrupt"

\* other values the stack and base pointers of the interrupted program may hold
OtherPointers == {W32(0), W32(64), << 52, 18, 0, 0 >>, << 255, 255, 255, 255 >>}

\* C22: after step() services an interrupt the pre-interrupt context is recoverable
\* from the machine state: two pre-states that differ in SP or in BP never yield the
\* same post-state; in user ring SP is loaded with the system SP
C22_ServiceKeepsContext ==
    Serviced
    => /\ \A r \in {R_SP, R_BASE} : \A v \in OtherPointers :
              v # last.pre.xs[r] => step([last.pre EXCEPT !.xs[r] = v]).self # Self
       /\ get_flag(last.pre, F_USER_RING) => xs[R_SP] = last.pre.system_sp

\* C26: when the set-USER_RING instruction succeeds, switching from system ring to
\* user ring, system_sp receives the value SP (x15) had at that moment
C26_SystemSpSaved ==
    (Decoded(23) /\ last.fault = Ok /\ ~panicked /\ ~get_flag(last.pre, F_USER_RING))
    => /\ get_flag(Self, F_USER_RING)
       /\ system_sp = last.pre.xs[R_SP]

\* C27: a step() that services an interrupt leaves PC, the flags word, memmap,
\* interrupt_mask, system_sp, the float registers and memory unchanged; it changes
\* only the queue (head removed), x12 and, when USER_RING is set, SP (loaded with
\* system_sp) and BP (zeroed)
C27_ServiceTransfersNoControl ==
    Serviced
    => /\ xs[R_PC] = last.pre.xs[R_PC]
       /\ flags = last.pre.flags
       /\ memmap = last.pre.memmap
       /\ interrupt_mask = last.pre.interrupt_mask
       /\ system_sp = last.pre.system_sp
       /\ fs = last.pre.fs
       /\ memory = last.pre.memory
       /\ interrupt_queue = Tail(last.pre.interrupt_queue)
       /\ xs[R_INT] = Head(last.pre.interrupt_queue)
       /\ \A i \in (0..15) \ {R_INT, R_SP, R_BASE} : xs[i] = last.pre.xs[i]
       /\ IF get_flag(last.pre, F_USER_RING)
          THEN xs[R_SP] = last.pre.system_sp /\ xs[R_BASE] = W32(0)
          ELSE xs[R_SP] = last.pre.xs[R_SP] /\ xs[R_BASE] = last.pre.xs[R_BASE]

\* an interrupt has been serviced in user ring at a PC past the program's start:
\* SP went from 0x1234 to the system SP, x12 holds the id, PC stayed
C27_ServicedInUserRing ==
    /\ Serviced
    /\ get_flag(last.pre, F_USER_RING)
    /\ last.pre.xs[R_SP] = << 52, 18, 0, 0 >>
    /\ xs[R_SP] = W32(0)
    /\ xs[R_INT] \in {W32(1), W32(2)}
    /\ xs[R_PC] = last.pre.xs[R_PC]
    /\ xs[R_PC] # W32(0)

\* the opcodes of the integer stores: 0b1100yyyy store-int, 0b1101yyyy store-short,
\* 0b1110yyyy store-byte, and the indirect 0x96, 0x97, 0x98
IntStoreOpcodes == 192..239 \cup {150, 151, 152}

\* the last call was a step() that executed an integer store to its end
Stored ==
    /\ last.call = "step"
    /\ last.path = "instruction"
    /\ ~panicked
    /\ last.fault = Ok
    /\ Fetched.err = Ok
    /\ Fetched.val \in IntStoreOpcodes

\* the address, the register value and the number of bytes of that store
StoreAddr ==
    IF Fetched.val >= 192 THEN exec_u32(Fetched.self).val ELSE Operand.self.xs[Src]
StoreValue ==
    IF Fetched.val >= 192 THEN exec_u32(Fetched.self).self.xs[Fetched.val % 16]
    ELSE Operand.self.xs[Dst]
StoreWidth ==
    CASE Fetched.val \in 192..207 \cup {150} -> 4
      [] Fetched.val \in 208..223 \cup {151} -> 2
      [] Fetched.val \in 224..239 \cup {152} -> 1

\* the virtual address k bytes after the store's
StoreByte(k) == AddC(StoreAddr, W32(k), 0).w

\* the bytes A .. A + width - 1 exist: the addresses do not wrap, each translates to
\* an address inside the bus, no two to the same, and each may be read
StoreBacked ==
    /\ \A k \in 0..(StoreWidth - 1) :
          /\ AddC(StoreAddr, W32(k), 0).c = 0
          /\ LtW(Phys(StoreByte(k)), W32(SIMPLE_ADDRESS_SIZE))
          /\ check_memory(Self, StoreByte(k), READ).err = Ok
          /\ check_memory(Self, StoreByte(k), READ).val = Phys(StoreByte(k))
    /\ Cardinality({Phys(StoreByte(k)) : k \in 0..(StoreWidth - 1)}) = StoreWidth

\* a load-int and an indirect load-int from the store's address return its value
LoadsBack ==
    /\ read_u32(Self, StoreAddr).err = Ok
    /\ read_u32(Self, StoreAddr).val = StoreValue
    /\ With(load_indirect_int([Self EXCEPT !.xs[1] = StoreAddr], 0, 1), LAMBDA r :
           r.err = Ok /\ r.self.xs[0] = StoreValue)

\* C23: an integer store of a register value v to address A (immediate or indirect),
\* where the bytes it addresses exist in memory, writes the low StoreWidth bytes of v
\* little-endian at A .. and nothing else; after store-int a load-int or indirect
\* load-int from A returns v; store-short writes exactly the low two bytes and
\* store-byte exactly the low byte
C23_StoreLoadRoundTrip ==
    (Stored /\ StoreBacked)
    => /\ \A k \in 1..StoreWidth :
              Address_read(memory, Phys(StoreByte(k - 1))) = StoreValue[k]
       /\ \A a \in (DOMAIN memory \cup DOMAIN last.pre.memory)
                   \ {AddrIndex(Phys(StoreByte(k))) : k \in 0..(StoreWidth - 1)} :
              Address_read(memory, W32(a)) = Address_read(last.pre.memory, W32(a))
       /\ StoreWidth = 4 => LoadsBack
       /\ flags = last.pre.flags
       /\ fs = last.pre.fs
       /\ \A i \in (0..15) \ {R_PC} : xs[i] = last.pre.xs[i]

\* C23 as stated, for every address A: after store-int of v to A a load-int or
\* indirect load-int from A returns v
C23_RoundTripAnyAddress ==
    (Stored /\ StoreWidth = 4) => LoadsBack

\* step() has stored x0 = 0xa0b0c0d0 at 0xff00 and loaded x1 from 0xff00: x1 is
\* 0xa0b0c0d0 and memory holds d0 c0 b0 a0 from 0xff00 on
C23_LoadedBack ==
    /\ Decoded(97)
    /\ last.fault = Ok
    /\ steps = 3
    /\ xs[1] = << 208, 192, 176, 160 >>
    /\ xs[1] = xs[0]
    /\ \A k \in 1..4 : Address_read(memory, W32(65280 + k - 1)) = xs[0][k]

\* the flag the conditional branch with this opcode (0x00..0x0f) tests
BranchFlag(opcode) ==
    << F_ZERO, F_OVERFLOW, F_CARRY, F_NEGATIVE, F_PARITY, F_NAN, F_INFINITE,
       F_MEMMAP_ENABLE >>[(opcode % 8) + 1]

\* the last call was a step() that executed a conditional branch to its end
Branched ==
    /\ last.call = "step"
    /\ last.path = "instruction"
    /\ ~panicked
    /\ last.fault = Ok
    /\ Fetched.err = Ok
    /\ Fetched.val \in 0..15

\* whether that branch is taken: branch-on-true (0x00..0x07) when the flag is set,
\* branch-on-false (0x08..0x0f) when it is clear
Taken == (Fetched.val < 8) = (Bit(last.pre.flags, BranchFlag(Fetched.val)) = 1)

\* C24: a conditional branch at address a whose immediate fetch succeeds consumes its
\* 4-byte target: branch-on-true sets PC to the little-endian target if the tested
\* flag is set and to a + 5 otherwise, branch-on-false is the mirror; no register
\* other than PC and no flag is changed
C24_BranchConsumesTarget ==
    Branched
    => /\ xs[R_PC] = IF Taken THEN exec_u32(Fetched.self).val
                     ELSE AddC(last.pre.xs[R_PC], W32(5), 0).w
       /\ exec_u32(Fetched.self).self.xs[R_PC] = AddC(last.pre.xs[R_PC], W32(5), 0).w
       /\ \A i \in (0..15) \ {R_PC} : xs[i] = last.pre.xs[i]
       /\ flags = last.pre.flags
       /\ fs = last.pre.fs
       /\ memory = last.pre.memory

\* the branch on ZERO at 0x30 was not taken: PC is 0x35, past a target of four
\* different non-zero bytes
C24_FellThrough ==
    /\ Branched
    /\ Fetched.val = 0
    /\ ~Taken
    /\ last.pre.xs[R_PC] = W32(48)
    /\ exec_u32(Fetched.self).val = << 1, 2, 3, 4 >>
    /\ xs[R_PC] = W32(53)

\* C25: for every pair of register indices x0, x1, x0 = x1 included, and every
\* CARRY-in, isub(x0, x1) leaves x0 = (old x0 + ~old x1 + CARRY) mod 2^32 with the
\* flags as iadd(x0, ~x1) would set them, and x1, when it is a different register,
\* holds its original value afterwards
C25_IsubAnyRegisters ==
    Executed(129)
    => With(AddC(Operand.self.xs[Dst], NotW(Operand.self.xs[Src]),
                 Bit(last.pre.flags, F_CARRY)),
            LAMBDA sum :
                /\ xs[Dst] = sum.w
                /\ FlagsOfSum(Operand.self.xs[Dst], NotW(Operand.self.xs[Src]), sum)
                /\ Dst # Src => xs[Src] = Operand.self.xs[Src])

\* the opcode fetch of a step() on the Cpu s raises a fault
FetchFaults(s) == exec(s).err \notin {Ok, Panic}

\* C28: a step() whose opcode fetch faults leaves the entire machine state (PC, all
\* registers, flags, control registers, queue, memory) unchanged; and from a state
\* whose opcode fetch faults every call of step(), irq() and nmi() leaves PC where it
\* is and the fetch still faulting, so that PC never changes again
C28_FetchFaultIsFinal ==
    (last.call # "new" /\ FetchFaults(last.pre))
    => /\ xs[R_PC] = last.pre.xs[R_PC]
       /\ FetchFaults(Self)
       /\ (last.call = "step" /\ last.path = "instruction")
          => (Self = last.pre /\ last.fault = exec(last.pre).err)

\* the opcode fetch at PC = 7 has faulted again after an interrupt was serviced there
C28_StuckAfterService ==
    /\ last.call = "step"
    /\ last.path = "instruction"
    /\ last.fault = UsedFreePage
    /\ FetchFaults(last.pre)
    /\ serviced # << >>
    /\ xs[R_INT] # W32(0)
    /\ xs[R_PC] = W32(7)
    /\ steps >= 5

\* the sub-codes of class 00 (no arguments) and of class 10 (two registers) that
\* decode_instruction does not define
UndefinedNone == {22} \cup 26..63
UndefinedTwo == 28..63

\* the Cpu s with PC advanced by n
Advanced(s, n) == [s EXCEPT !.xs[R_PC] = AddC(@, W32(n), 0).w]

\* the Cpu with these flags
Flagged(f) == [Self EXCEPT !.flags = f]

\* the class-00 sub-code behaves as a call of set_user_ring(false) would: it faults
\* in user ring and returns Ok without any change in system ring, whatever the flags
LeavesRing(sub) ==
    /\ decode_none(Flagged(<< 8, 24, 0, 0 >>), sub).err = UnprivilegedOpcode
    /\ decode_none(Flagged(<< 8, 16, 0, 0 >>), sub) = Res(Flagged(<< 8, 16, 0, 0 >>), Ok, 0)
    /\ decode_none(Flagged(W32(0)), sub) = Res(Flagged(W32(0)), Ok, 0)

\* C29: undefined sub-codes are no-ops: a class-00 opcode with sub-code 0x16 or
\* 0x1a..0x3f changes nothing but PC (+1), a class-10 opcode with sub-code 0x1c..0x3f
\* changes nothing but PC (+2); no class-00 opcode acts as set_user_ring(false)
C29_UndefinedAreNoOps ==
    /\ \A sub \in UndefinedNone : decode_none(Self, sub) = Res(Self, Ok, 0)
    /\ \A sub \in UndefinedTwo :
          exec(Self).err = Ok => decode_two(Self, sub) = Res(exec(Self).self, Ok, 0)
    /\ (last.call = "step" /\ last.path = "instruction" /\ Fetched.err = Ok /\ ~panicked)
       => /\ Fetched.val \in UndefinedNone
             => (Self = Advanced(last.pre, 1) /\ last.fault = Ok)
          /\ (Fetched.val \in 128..191 /\ Fetched.val % 64 \in UndefinedTwo
              /\ Operand.err = Ok)
             => (Self = Advanced(last.pre, 2) /\ last.fault = Ok)
    /\ \A sub \in 0..63 : ~LeavesRing(sub)

\* step() has executed the undefined opcode 0xbc with operand 0x21 in user ring, with
\* CARRY and INTERRUPT_ENABLE set: only PC moved, from 11 to 13
C29_SkippedInUserRing ==
    /\ Decoded(188)
    /\ Operand.val = 33
    /\ last.pre.flags = << 72, 8, 0, 0 >>
    /\ last.pre.xs[R_PC] = W32(11)
    /\ Self = Advanced(last.pre, 2)

====
